---- MODULE Spec2Model ----
(***************************************************************************)
(* Model of npm-cloudflare-sync: the NPM host monitor (npm-monitor.ts),    *)
(* the Cloudflare client (cloudflare.ts) and the orchestrator (index.ts).  *)
(*                                                                         *)
(* Strings the code inspects (host names, delimited domain lists, JSON     *)
(* text) are sequences of tokens: a token is a DNS label, a fragment of a  *)
(* label, or one of the separators ".", ",", " ".  Suffix tests, split and *)
(* trim work on these sequences as the code's work on characters.          *)
(***************************************************************************)
EXTENDS Integers, Sequences, FiniteSets, TLC

(***************************************************************************)
(* Bounds of the model.                                                    *)
(***************************************************************************)
\* concurrent activations of the monitor closure that the model follows
MaxRuns == 2
\* cap of consecutiveFailures: a failing step is not taken beyond it
MaxFailureCount == 9
\* cap of live interval timers
MaxTimers == 2
\* re-entries of getProxyHosts after a 401 that one call is followed through
MaxReauths == 2

(***************************************************************************)
(* Program constants of NPMMonitor.                                        *)
(***************************************************************************)
maxRetries == 3
maxConsecutiveFailures == 5

Null == "null"
BearerToken == "token"

(***************************************************************************)
(* Host names.                                                             *)
(***************************************************************************)
ZoneExample == <<"example", ".", "com">>
SubExample == <<"sub", ".", "example", ".", "com">>
WwwExample == <<"www", ".", "example", ".", "com">>

(***************************************************************************)
(* NPMHost.  domain_names is string | string[]: isArray tells which, and   *)
(* a string is kept as the single element of items.                        *)
(***************************************************************************)
DnArray(names) == [isArray |-> TRUE, items |-> names]
DnString(s) == [isArray |-> FALSE, items |-> <<s>>]

NPMHost(id, dn, fh, fp, mo) ==
  [id |-> id, domain_names |-> dn, forward_host |-> fh,
   forward_port |-> fp, modified_on |-> mo]

(***************************************************************************)
(* new Date(s).getTime(): the instant a timestamp text denotes, in seconds *)
(* since the epoch, or NaN when the text is no date.  Two texts of one     *)
(* instant give the same number.                                           *)
(***************************************************************************)
NaN == [nan |-> TRUE, t |-> 0]
DateGetTime(s) ==
  CASE s = "2024-01-01T00:00:00.000Z" -> [nan |-> FALSE, t |-> 1704067200]
    [] s = "2024-01-01T00:00:00Z"     -> [nan |-> FALSE, t |-> 1704067200]
    [] s = "2024-01-02T00:00:00.000Z" -> [nan |-> FALSE, t |-> 1704153600]
    [] OTHER                          -> NaN

\* a !== b on numbers: NaN is unequal to every number, itself included
NumberStrictNe(a, b) == a.nan \/ b.nan \/ a.t # b.t

(***************************************************************************)
(* JSON.stringify of a domain_names value, as a token sequence.            *)
(***************************************************************************)
RECURSIVE JsonItems(_)
JsonItems(items) ==
  IF items = <<>> THEN <<>>
  ELSE <<"\"">> \o Head(items) \o <<"\"">>
       \o (IF Tail(items) = <<>> THEN <<>> ELSE <<",">> \o JsonItems(Tail(items)))

JSONStringify(dn) ==
  IF dn.isArray THEN <<"[">> \o JsonItems(dn.items) \o <<"]">>
  ELSE <<"\"">> \o dn.items[1] \o <<"\"">>

(***************************************************************************)
(* The host lists NPM serves in the model: host 1 in the variants that     *)
(* differ from the base in one field, host 2, lists ordered by id.         *)
(***************************************************************************)
Host1Base ==
  NPMHost(1, DnArray(<<SubExample>>), "10.0.0.5", 80, "2024-01-01T00:00:00.000Z")
Host1Variants ==
  { Host1Base,
    [Host1Base EXCEPT !.modified_on = "2024-01-01T00:00:00Z"],
    [Host1Base EXCEPT !.modified_on = "2024-01-02T00:00:00.000Z"],
    [Host1Base EXCEPT !.modified_on = ""],
    [Host1Base EXCEPT !.forward_host = "10.0.0.6"],
    [Host1Base EXCEPT !.forward_port = 8080],
    [Host1Base EXCEPT !.domain_names = DnString(SubExample)] }
Host2 ==
  NPMHost(2, DnArray(<<WwwExample>>), "10.0.0.7", 80, "2024-01-01T00:00:00.000Z")

HostLists ==
  {<<>>, <<Host2>>} \cup {<<h>> : h \in Host1Variants}
    \cup {<<h, Host2>> : h \in Host1Variants}

SeqToSet(s) == {s[i] : i \in 1..Len(s)}
Ids(s) == {s[i].id : i \in 1..Len(s)}

(***************************************************************************)
(* State.                                                                  *)
(***************************************************************************)
VARIABLES
  \* NPMMonitor fields
  token, consecutiveFailures, isMonitoring, isInitialized, lastKnownHosts,
  monitorInterval,
  \* number of live setInterval timers that call the monitor closure
  timers,
  \* the activations of the monitor closure: position, loop counter, the
  \* arguments of the callback, and the increments of consecutiveFailures
  \* made by the activation's current getProxyHosts call, and the times the
  \* call re-entered getProxyHosts after a 401
  runs,
  \* the proxy-host list NPM would answer with
  npmHosts,
  \* getChangesSinceLastCheck calls returned since startMonitoring (0, 1,
  \* 2 or more) and getProxyHosts calls that failed in a row
  checksSinceStart, failedPolls,
  \* what the last step did, for the properties: a diff, an exhausted poll
  event

monVars ==
  <<token, consecutiveFailures, isMonitoring, isInitialized, lastKnownHosts,
    monitorInterval, timers, runs, npmHosts, checksSinceStart, failedPolls,
    event>>

NoArgs == [currentHosts |-> <<>>, changedHosts |-> <<>>, deletedHosts |-> <<>>]
IdleRun ==
  [pc |-> "idle", attempt |-> 0, initial |-> FALSE, increments |-> 0,
   reauths |-> 0, args |-> NoArgs]
NewRun(initial) ==
  [pc |-> "headers", attempt |-> 0, initial |-> initial, increments |-> 0,
   reauths |-> 0, args |-> NoArgs]

NoEvent ==
  [diff |-> FALSE, nth |-> 0, wasInitialized |-> FALSE, previous |-> <<>>,
   currentHosts |-> <<>>, changedHosts |-> <<>>, deletedHosts |-> <<>>,
   exhausted |-> FALSE, increments |-> 0, halted |-> FALSE, failedPolls |-> 0,
   startCall |-> ""]

\* the fields of the monitor object, gathered to thread them through a step
Monitor ==
  [token |-> token, consecutiveFailures |-> consecutiveFailures,
   isMonitoring |-> isMonitoring, isInitialized |-> isInitialized,
   lastKnownHosts |-> lastKnownHosts, monitorInterval |-> monitorInterval,
   timers |-> timers]

SetMonitor(m) ==
  /\ token' = m.token
  /\ consecutiveFailures' = m.consecutiveFailures
  /\ isMonitoring' = m.isMonitoring
  /\ isInitialized' = m.isInitialized
  /\ lastKnownHosts' = m.lastKnownHosts
  /\ monitorInterval' = m.monitorInterval
  /\ timers' = m.timers

\* the state after the constructor (npm-monitor.ts:9-29)
InitFields ==
  /\ token = Null
  /\ consecutiveFailures = 0
  /\ isMonitoring = FALSE
  /\ isInitialized = FALSE
  /\ lastKnownHosts = <<>>
  /\ monitorInterval = FALSE
  /\ timers = 0
  /\ runs = [r \in 1..MaxRuns |-> IdleRun]
  /\ checksSinceStart = 0
  /\ failedPolls = 0
  /\ event = NoEvent

(***************************************************************************)
(* NPMMonitor.stopMonitoring.                                              *)
(***************************************************************************)
stopMonitoring(m) ==
  [m EXCEPT !.timers = IF m.monitorInterval THEN @ - 1 ELSE @,
            !.monitorInterval = FALSE,
            !.isMonitoring = FALSE,
            !.isInitialized = FALSE]

(***************************************************************************)
(* The comparison of getChangesSinceLastCheck's filter callback: whether   *)
(* currentHost differs from previousHost, the baseline entry of its id.    *)
(***************************************************************************)
hasChanged(currentHost, previousHost) ==
  \/ NumberStrictNe(DateGetTime(currentHost.modified_on),
                    DateGetTime(previousHost.modified_on))
  \/ currentHost.forward_host # previousHost.forward_host
  \/ currentHost.forward_port # previousHost.forward_port
  \/ JSONStringify(currentHost.domain_names) # JSONStringify(previousHost.domain_names)

\* lastKnownHosts.find(h => h.id === id): the first entry of that id
FindById(hosts, id) ==
  LET hits == {i \in 1..Len(hosts) : hosts[i].id = id}
  IN IF hits = {} THEN <<>>
     ELSE <<hosts[CHOOSE i \in hits : \A j \in hits : i <= j]>>

(***************************************************************************)
(* NPMMonitor.getChangesSinceLastCheck, from the return of getProxyHosts   *)
(* on: the result and the monitor's fields after it.                       *)
(***************************************************************************)
\* a baseline that is left as it was
replaceBaseline_never(previousHosts, currentHosts) == previousHosts

\* this.lastKnownHosts = currentHosts (261)
replaceBaseline(previousHosts, currentHosts) == currentHosts

getChangesSinceLastCheck(m, currentHosts) ==
  IF ~m.isInitialized
  THEN [m |-> [m EXCEPT !.lastKnownHosts = currentHosts, !.isInitialized = TRUE],
        changedHosts |-> currentHosts,
        deletedHosts |-> <<>>]
  ELSE LET isChanged(currentHost) ==
             LET previousHost == FindById(m.lastKnownHosts, currentHost.id)
             IN IF previousHost = <<>> THEN TRUE
                ELSE hasChanged(currentHost, previousHost[1])
           isDeleted(previousHost) == previousHost.id \notin Ids(currentHosts)
       IN [m |-> [m EXCEPT !.lastKnownHosts =
                                replaceBaseline(@, currentHosts)],
           changedHosts |-> SelectSeq(currentHosts, isChanged),
           deletedHosts |-> SelectSeq(m.lastKnownHosts, isDeleted)]

Min(a, b) == IF a <= b THEN a ELSE b

\* the activations the model may use: the first `limit` of them
FreeRuns(limit) == {r \in 1..Min(limit, MaxRuns) : runs[r].pc = "idle"}
FirstFree(limit) == CHOOSE r \in FreeRuns(limit) : \A q \in FreeRuns(limit) : r <= q
InitialRuns == {r \in 1..MaxRuns : runs[r].pc # "idle" /\ runs[r].initial}

(***************************************************************************)
(* The monitor closure returns.  The activation that startMonitoring       *)
(* awaits (npm-monitor.ts:321) is followed by setInterval: a new timer,    *)
(* whose handle replaces the one in monitorInterval.                       *)
(***************************************************************************)
EndRun(r, m) ==
  /\ SetMonitor(IF runs[r].initial
                THEN [m EXCEPT !.monitorInterval = TRUE, !.timers = @ + 1]
                ELSE m)
  /\ runs' = [runs EXCEPT ![r] = IdleRun]

(***************************************************************************)
(* The monitor closure from the return of getProxyHosts with `hosts`: the  *)
(* diff, then the callback when a host changed or was deleted.  `ev` is    *)
(* the part of the step's event that the caller knows.                     *)
(***************************************************************************)
AfterProxyHosts(r, m, hosts, ev) ==
  LET d == getChangesSinceLastCheck(m, hosts)
  IN /\ event' =
          [ev EXCEPT !.diff = TRUE, !.nth = checksSinceStart,
                     !.wasInitialized = m.isInitialized,
                     !.previous = m.lastKnownHosts,
                     !.currentHosts = hosts,
                     !.changedHosts = d.changedHosts,
                     !.deletedHosts = d.deletedHosts]
     /\ checksSinceStart' = Min(checksSinceStart + 1, 2)
     /\ IF Len(d.changedHosts) > 0 \/ Len(d.deletedHosts) > 0
        THEN /\ SetMonitor(d.m)
             /\ runs' = [runs EXCEPT ![r].pc = "callback",
                                     ![r].args =
                                        [currentHosts |-> hosts,
                                         changedHosts |-> d.changedHosts,
                                         deletedHosts |-> d.deletedHosts]]
        ELSE EndRun(r, d.m)

(***************************************************************************)
(* getProxyHosts after its loop (npm-monitor.ts:171-183): count the        *)
(* failure; at the threshold stop and throw, which the monitor closure     *)
(* catches (308-316) and answers with a second stopMonitoring; below it    *)
(* return the empty list.  `incs` counts the increments the call made      *)
(* before this one.                                                        *)
(***************************************************************************)
RetriesExhausted(r, m, incs) ==
  LET m1 == [m EXCEPT !.consecutiveFailures = @ + 1]
      halt == m1.consecutiveFailures >= maxConsecutiveFailures
      ev == [NoEvent EXCEPT !.exhausted = TRUE,
                            !.increments = incs + 1,
                            !.halted = halt,
                            !.failedPolls = Min(failedPolls + 1, MaxFailureCount)]
  IN /\ failedPolls' = Min(failedPolls + 1, MaxFailureCount)
     /\ IF halt
        THEN /\ EndRun(r, stopMonitoring(stopMonitoring(m1)))
             /\ event' = ev
             /\ UNCHANGED checksSinceStart
        ELSE AfterProxyHosts(r, m1, <<>>, ev)

(***************************************************************************)
(* The catch block of getProxyHosts' loop (144-168): the next attempt      *)
(* while one is left, else the code after the loop.  `inc` is 1 when the   *)
(* failed attempt counted a failure of its own (a failed login).           *)
(***************************************************************************)
AttemptFailed(r, m, inc) ==
  IF runs[r].attempt < maxRetries - 1
  THEN /\ SetMonitor(m)
       /\ runs' = [runs EXCEPT ![r].attempt = @ + 1, ![r].pc = "headers",
                               ![r].increments = @ + inc]
       /\ event' = NoEvent
       /\ UNCHANGED <<checksSinceStart, failedPolls>>
  ELSE /\ m.consecutiveFailures < MaxFailureCount
       /\ RetriesExhausted(r, m, runs[r].increments + inc)

(***************************************************************************)
(* login (31-98): one of its maxRetries attempts succeeds, storing the     *)
(* token and clearing the counter, or all fail and the counter rises.      *)
(***************************************************************************)
\* a login that stores the token and leaves the counter as it was
login_keepsCounter(m, ok) ==
  IF ok THEN [m EXCEPT !.token = BearerToken]
  ELSE [m EXCEPT !.consecutiveFailures = @ + 1]

login(m, ok) ==
  IF ok
  THEN [m EXCEPT !.token = BearerToken, !.consecutiveFailures = 0]
  ELSE [m EXCEPT !.consecutiveFailures = @ + 1]

(***************************************************************************)
(* getHeaders (100-108) at the head of an attempt of getProxyHosts.        *)
(***************************************************************************)
GetHeaders(r) ==
  /\ runs[r].pc = "headers"
  /\ UNCHANGED npmHosts
  /\ IF token # Null
     THEN /\ runs' = [runs EXCEPT ![r].pc = "fetch"]
          /\ event' = NoEvent
          /\ UNCHANGED <<token, consecutiveFailures, isMonitoring, isInitialized,
                         lastKnownHosts, monitorInterval, timers,
                         checksSinceStart, failedPolls>>
     ELSE \E ok \in BOOLEAN :
            IF ok
            THEN /\ SetMonitor(login(Monitor, TRUE))
                 /\ runs' = [runs EXCEPT ![r].pc = "fetch"]
                 /\ event' = NoEvent
                 /\ UNCHANGED <<checksSinceStart, failedPolls>>
            ELSE /\ consecutiveFailures < MaxFailureCount
                 /\ AttemptFailed(r, login(Monitor, FALSE), 1)

(***************************************************************************)
(* The GET of getProxyHosts (119-140) and what follows its answer.  On 401 *)
(* the call returns what a new call of getProxyHosts returns.              *)
(***************************************************************************)
FetchProxyHosts(r) ==
  /\ runs[r].pc = "fetch"
  /\ UNCHANGED npmHosts
  /\ \E answer \in {"ok", "401", "error"} :
       CASE answer = "ok" ->
              /\ AfterProxyHosts(r, [Monitor EXCEPT !.consecutiveFailures = 0],
                                 npmHosts, NoEvent)
              /\ failedPolls' = 0
         [] answer = "401" ->
              /\ runs[r].reauths < MaxReauths
              /\ SetMonitor([Monitor EXCEPT !.token = Null])
              /\ runs' = [runs EXCEPT ![r].attempt = 0, ![r].pc = "headers",
                                      ![r].increments = 0,
                                      ![r].reauths = @ + 1]
              /\ event' = NoEvent
              /\ UNCHANGED <<checksSinceStart, failedPolls>>
         [] OTHER -> AttemptFailed(r, Monitor, 0)

(***************************************************************************)
(* The callback of the monitor closure settles (303-316): it returned, or  *)
(* it threw and the catch block looks at the counter.                      *)
(***************************************************************************)
CallbackSettles(r) ==
  /\ runs[r].pc = "callback"
  /\ \E threw \in BOOLEAN :
       EndRun(r, IF threw /\ consecutiveFailures >= maxConsecutiveFailures
                 THEN stopMonitoring(Monitor) ELSE Monitor)
  /\ event' = NoEvent
  /\ UNCHANGED <<npmHosts, checksSinceStart, failedPolls>>

(***************************************************************************)
(* startMonitoring up to its await (275-321).                              *)
(***************************************************************************)
\* startMonitoring without the reset of the initialized flag (line 288)
startMonitoring_keepsInitialized(m) == [m EXCEPT !.isMonitoring = TRUE]

startMonitoring(m) == [m EXCEPT !.isMonitoring = TRUE, !.isInitialized = FALSE]

\* a guard that lets every call through
alreadyMonitoring_never(m) == FALSE

\* the guard at the head of startMonitoring (282-285)
alreadyMonitoring(m) == m.isMonitoring

StartMonitoring(limit) ==
  IF alreadyMonitoring(Monitor)
  THEN /\ event' = [NoEvent EXCEPT !.startCall = "noop"]
       /\ UNCHANGED <<token, consecutiveFailures, isMonitoring, isInitialized,
                      lastKnownHosts, monitorInterval, timers, runs, npmHosts,
                      checksSinceStart, failedPolls>>
  ELSE /\ FreeRuns(limit) # {}
       /\ timers + Cardinality(InitialRuns) < MaxTimers
       /\ SetMonitor(startMonitoring(Monitor))
       /\ runs' = [runs EXCEPT ![FirstFree(limit)] = NewRun(TRUE)]
       /\ checksSinceStart' = 0
       /\ event' = [NoEvent EXCEPT !.startCall = "started"]
       /\ UNCHANGED <<npmHosts, failedPolls>>

StopMonitoring ==
  /\ SetMonitor(stopMonitoring(Monitor))
  /\ event' = NoEvent
  /\ UNCHANGED <<runs, npmHosts, checksSinceStart, failedPolls>>

(***************************************************************************)
(* A live interval timer fires (324-328) and calls the monitor closure,    *)
(* whether or not an earlier activation is still in flight.                *)
(***************************************************************************)
IntervalTick(limit) ==
  /\ timers > 0
  /\ FreeRuns(limit) # {}
  /\ runs' = [runs EXCEPT ![FirstFree(limit)] = NewRun(FALSE)]
  /\ event' = NoEvent
  /\ UNCHANGED <<token, consecutiveFailures, isMonitoring, isInitialized,
                 lastKnownHosts, monitorInterval, timers, npmHosts,
                 checksSinceStart, failedPolls>>

\* the proxy hosts are edited in NPM
NPMEdit(lists) ==
  /\ npmHosts' \in lists \ {npmHosts}
  /\ event' = NoEvent
  /\ UNCHANGED <<token, consecutiveFailures, isMonitoring, isInitialized,
                 lastKnownHosts, monitorInterval, timers, runs,
                 checksSinceStart, failedPolls>>

(***************************************************************************)
(***************************************************************************)
(* The Cloudflare client and the orchestrator.                             *)
(***************************************************************************)
(***************************************************************************)

\* a suffix test that rejects the whole string as its own suffix
EndsWith_proper(s, suffix) ==
  /\ Len(suffix) < Len(s)
  /\ SubSeq(s, Len(s) - Len(suffix) + 1, Len(s)) = suffix

\* String.prototype.endsWith on token sequences
EndsWith(s, suffix) ==
  /\ Len(suffix) <= Len(s)
  /\ SubSeq(s, Len(s) - Len(suffix) + 1, Len(s)) = suffix

\* String.prototype.split(",")
RECURSIVE SplitComma(_, _)
SplitComma(s, piece) ==
  IF s = <<>> THEN <<piece>>
  ELSE IF Head(s) = "," THEN <<piece>> \o SplitComma(Tail(s), <<>>)
  ELSE SplitComma(Tail(s), Append(piece, Head(s)))

\* String.prototype.trim
RECURSIVE TrimStart(_)
TrimStart(s) ==
  IF s # <<>> /\ Head(s) = " " THEN TrimStart(Tail(s)) ELSE s

RECURSIVE TrimEnd(_)
TrimEnd(s) ==
  IF s # <<>> /\ s[Len(s)] = " " THEN TrimEnd(SubSeq(s, 1, Len(s) - 1)) ELSE s

Trim(s) == TrimEnd(TrimStart(s))

\* index.ts:209-211 and 227-229: the domains of a host, not yet trimmed
DomainsOf(host) ==
  IF host.domain_names.isArray THEN host.domain_names.items
  ELSE SplitComma(host.domain_names.items[1], <<>>)

(***************************************************************************)
(* Cloudflare as the client sees it: the zones of the account and the DNS  *)
(* records, in the order the listing returns them (oldest first).          *)
(***************************************************************************)
ZoneOrg == <<"example", ".", "org">>
CloudflareZones ==
  << [id |-> "zone-com", name |-> ZoneExample],
     [id |-> "zone-org", name |-> ZoneOrg] >>

\* addresses are one-label texts; NoIP is null (and, like null, falsy)
IPs == {<<"1.2.3.4">>, <<"5.6.7.8">>}
NoIP == <<>>

Wildcard(zoneName) == <<"*", ".">> \o zoneName

DNSRecord(id, zone, name, type, content, proxied) ==
  [id |-> id, zone |-> zone, name |-> name, type |-> type,
   content |-> content, proxied |-> proxied]

RecordIds(records) == {records[k].id : k \in 1..Len(records)}

\* the id Cloudflare gives a new record: one it has not given before
FreshId(taken) ==
  CHOOSE i \in 1..(Cardinality(taken) + 1) : i \notin taken

RecordsOfZone(records, zoneId) ==
  LET inZone(r) == r.zone = zoneId IN SelectSeq(records, inZone)

\* Array.prototype.find: the first element that passes, as <<element>>, or <<>>
Find(s, Test(_)) ==
  LET hits == SelectSeq(s, Test) IN IF hits = <<>> THEN <<>> ELSE <<hits[1]>>

(***************************************************************************)
(* State of the orchestrator and of Cloudflare.                            *)
(***************************************************************************)
VARIABLES
  \* the DNS records Cloudflare holds
  cfRecords,
  \* public-ip.ts: the module's cache; now is Date.now()
  cachedIP, lastCheck, now,
  \* index.ts: the baseline address, and whether main passed its start-up
  currentPublicIP, started,
  \* the zones map of the client main keeps for the address checks
  zones,
  \* config.autoCreateRootRecords
  autoCreateRootRecords,
  \* handler invocations since main's start-up
  invocations,
  \* what the last handler invocation did, for the properties
  sync

syncVars ==
  <<cfRecords, cachedIP, lastCheck, now, currentPublicIP, started, zones,
    autoCreateRootRecords, invocations, sync>>

(***************************************************************************)
(* State of one makeRequest call and of the process.                       *)
(***************************************************************************)
VARIABLES
  \* the makeRequest call that is followed attempt by attempt
  call,
  \* where main is: "load" until it calls startMonitoring, "awaiting" while
  \* it awaits that call, "serving" after it, "exited" after process.exit
  process,
  \* whether Cloudflare has recovered: from then on no request fails and
  \* the public address resolves
  healthy,
  \* the getPublicIP call that is followed provider by provider
  lookup,
  \* the last getRootDomain call: its argument and what it returned
  probe

procVars == <<call, process, healthy, lookup, probe>>

vars == <<monVars, syncVars, procVars>>

CACHE_DURATION == 300000

\* Date.now() advances in steps of TickMs, up to MaxNow
TickMs == CACHE_DURATION \div 2
MaxTicks == 2
MaxNow == MaxTicks * TickMs

\* handler invocations followed after main's start-up
MaxInvocations == 1

\* Cloudflare refuses a create once it holds MaxRecords records
MaxRecords == 5

\* the requests of one invocation that may fail: at most MaxFailed of the
\* first MaxRequests
MaxRequests == 8
MaxFailed == 1
FailureSets == {S \in SUBSET (1..MaxRequests) : Cardinality(S) <= MaxFailed}

NoData == [name |-> <<>>, type |-> "", content |-> <<>>, proxied |-> FALSE]
RecordData(name, type, content, proxied) ==
  [name |-> name, type |-> type, content |-> content, proxied |-> proxied]
DataOf(r) == RecordData(r.name, r.type, r.content, r.proxied)

\* The state an invocation threads through its steps: Cloudflare's records,
\* the client's zones map, the address cache, the baseline; the requests
\* issued so far (log, n) and the record ids seen (taken); the value the last call returned (result for a
\* listing, ret for a create/update/delete/ensure, ip for getPublicIP) and
\* whether an exception is propagating; who is calling the client (by) and
\* for which domain of the loops (item).  fails and resolved are the
\* environment's choices for the invocation: the requests Cloudflare fails,
\* and the address the providers yield (NoIP when every provider fails).
Context(fails, resolved) ==
  [records |-> cfRecords, zones |-> zones, cachedIP |-> cachedIP,
   lastCheck |-> lastCheck, now |-> now, currentPublicIP |-> currentPublicIP,
   auto |-> autoCreateRootRecords, fails |-> fails, resolved |-> resolved,
   taken |-> RecordIds(cfRecords), log |-> <<>>, n |-> 0, result |-> <<>>, ret |-> FALSE, ip |-> NoIP,
   thrown |-> FALSE, by |-> "", item |-> 0]

HasId(records, zoneId, id) ==
  \E k \in 1..Len(records) : records[k].id = id /\ records[k].zone = zoneId

IndexOfId(records, id) == CHOOSE k \in 1..Len(records) : records[k].id = id

HasWildcardA(records, zoneId) ==
  \E k \in 1..Len(records), z \in 1..Len(CloudflareZones) :
    /\ CloudflareZones[z].id = zoneId
    /\ records[k].zone = zoneId
    /\ records[k].type = "A"
    /\ records[k].name = Wildcard(CloudflareZones[z].name)

\* whether Cloudflare performs the request
Performs(x, method, zoneId, id) ==
  /\ (x.n + 1) \notin x.fails
  /\ method = "POST" => Len(x.records) < MaxRecords
  /\ method \in {"PUT", "DELETE"} => HasId(x.records, zoneId, id)

\* what a request does to Cloudflare and to the invocation, given whether
\* Cloudflare performs it
Respond(x, method, zoneId, id, data, ok) ==
  LET kept(r) == r.id # id
      records ==
        IF ~ok THEN x.records
        ELSE CASE method = "POST" ->
                    Append(x.records,
                           DNSRecord(FreshId(x.taken), zoneId, data.name,
                                     data.type, data.content, data.proxied))
               [] method = "PUT" ->
                    [x.records EXCEPT ![IndexOfId(x.records, id)] =
                       DNSRecord(id, zoneId, data.name, data.type,
                                 data.content, data.proxied)]
               [] method = "DELETE" -> SelectSeq(x.records, kept)
               [] OTHER -> x.records
      result ==
        IF ~ok THEN <<>>
        ELSE CASE method = "GET" -> RecordsOfZone(x.records, zoneId)
               [] method = "ZONES" -> CloudflareZones
               [] OTHER -> <<>>
      entry ==
        [method |-> method, zone |-> zoneId, id |-> id, data |-> data,
         ok |-> ok, result |-> result, by |-> x.by, item |-> x.item,
         wildcard |-> HasWildcardA(x.records, zoneId)]
  IN [x EXCEPT !.n = @ + 1, !.records = records, !.result = result,
               !.ret = ok, !.log = Append(@, entry),
               !.taken = RecordIds(records) \cup @]

\* CloudflareAPI.makeRequest, retries included: one request that Cloudflare
\* performs, or that fails for good and throws (ret = FALSE)
makeRequest(x, method, zoneId, id, data) ==
  Respond(x, method, zoneId, id, data, Performs(x, method, zoneId, id))

\* CloudflareAPI.getZones
getZones(x) == makeRequest(x, "ZONES", "", 0, NoData)

\* CloudflareAPI.getRootDomain: the longest zone name the domain ends with.
\* The candidates are all suffixes of the same domain, so comparing their
\* lengths in labels orders them as comparing their lengths in characters.
RECURSIVE BestMatch(_, _, _)
\* a test that lets every matching zone name replace the best match
longer_any(zoneName, bestMatch) == TRUE

\* zoneName.length > bestMatch.length (304)
longer(zoneName, bestMatch) == Len(zoneName) > Len(bestMatch)

BestMatch(keys, domain, bestMatch) ==
  IF keys = <<>> THEN bestMatch
  ELSE LET zoneName == Head(keys).name
       IN BestMatch(Tail(keys), domain,
                    IF EndsWith(domain, zoneName) /\ longer(zoneName, bestMatch)
                    THEN zoneName ELSE bestMatch)

getRootDomain(zoneMap, domain) == BestMatch(zoneMap, domain, <<>>)

\* CloudflareAPI.getZoneIdForDomain: the id, or "" for undefined
getZoneIdForDomain(zoneMap, domain) ==
  LET rootDomain == getRootDomain(zoneMap, domain)
      isRoot(z) == z.name = rootDomain
      hit == Find(zoneMap, isRoot)
  IN IF hit = <<>> THEN "" ELSE hit[1].id

\* CloudflareAPI.getDNSRecords
getDNSRecords(x, domain) ==
  LET zoneId == getZoneIdForDomain(x.zones, domain)
  IN IF zoneId = "" THEN [x EXCEPT !.result = <<>>]
     ELSE makeRequest(x, "GET", zoneId, 0, NoData)

\* hasWildcardARecord once the listing is back
WildcardListed(x1, rootDomain) ==
  LET isWildcard(record) ==
        record.type = "A" /\ record.name = Wildcard(rootDomain)
  IN [x1 EXCEPT !.ret = Find(x1.result, isWildcard) # <<>>]

\* CloudflareAPI.hasWildcardARecord (ret)
hasWildcardARecord(x, domain) ==
  WildcardListed(getDNSRecords(x, getRootDomain(x.zones, domain)),
                 getRootDomain(x.zones, domain))

\* createDNSRecord and updateDNSRecord once the wildcard check is done
\* (x1.ret: a wildcard A record was found)
Guarded(x1, method, zoneId, recordId, data) ==
  IF x1.ret THEN [x1 EXCEPT !.ret = FALSE]
  ELSE makeRequest(x1, method, zoneId, recordId, data)

\* createDNSRecord and updateDNSRecord share their shape
GuardedMutation(x, method, domain, recordId, data) ==
  IF getZoneIdForDomain(x.zones, domain) = "" THEN [x EXCEPT !.ret = FALSE]
  ELSE Guarded(IF data.type = "CNAME" THEN hasWildcardARecord(x, domain)
               ELSE [x EXCEPT !.ret = FALSE],
               method, getZoneIdForDomain(x.zones, domain), recordId, data)

\* CloudflareAPI.createDNSRecord (ret: a record came back)
createDNSRecord(x, domain, data) == GuardedMutation(x, "POST", domain, 0, data)

\* CloudflareAPI.updateDNSRecord (ret: a record came back)
updateDNSRecord(x, domain, recordId, data) ==
  GuardedMutation(x, "PUT", domain, recordId, data)

\* CloudflareAPI.deleteDNSRecord
deleteDNSRecord(x, domain, recordId) ==
  LET zoneId == getZoneIdForDomain(x.zones, domain)
  IN IF zoneId = "" THEN [x EXCEPT !.ret = FALSE]
     ELSE makeRequest(x, "DELETE", zoneId, recordId, NoData)

(***************************************************************************)
(* public-ip.ts: getPublicIP (ip), with the provider loop reduced to its   *)
(* outcome, x.resolved.  It throws when no provider answers and nothing   *)
(* was ever cached.                                                        *)
(***************************************************************************)
getPublicIP(x) ==
  IF x.cachedIP # NoIP /\ x.now - x.lastCheck < CACHE_DURATION
  THEN [x EXCEPT !.ip = x.cachedIP]
  ELSE IF x.resolved # NoIP
  THEN [x EXCEPT !.cachedIP = x.resolved, !.lastCheck = x.now,
                 !.ip = x.resolved]
  ELSE IF x.cachedIP # NoIP
  THEN [x EXCEPT !.ip = x.cachedIP]
  ELSE [x EXCEPT !.thrown = TRUE]

\* updateRootDomainRecords: one zone, once its listing is back
ReconcileRoot(x1, domain, publicIP) ==
  LET isRootA(r) == r.type = "A" /\ r.name = domain
      aRecord == Find(x1.result, isRootA)
  IN IF aRecord # <<>>
     THEN IF aRecord[1].content # publicIP
          THEN updateDNSRecord(x1, domain, aRecord[1].id,
                               [DataOf(aRecord[1]) EXCEPT !.content = publicIP])
          ELSE x1
     ELSE createDNSRecord(x1, domain, RecordData(domain, "A", publicIP, TRUE))

\* the loop of CloudflareAPI.updateRootDomainRecords over the zones map
RECURSIVE ReconcileRoots(_, _, _)
ReconcileRoots(x, entries, publicIP) ==
  IF entries = <<>> THEN x
  ELSE ReconcileRoots(ReconcileRoot(getDNSRecords(x, Head(entries).name),
                                    Head(entries).name, publicIP),
                      Tail(entries), publicIP)

\* updateRootDomainRecords once getPublicIP is back
RootsWithIP(x1) ==
  IF x1.thrown THEN [x1 EXCEPT !.thrown = FALSE]
  ELSE ReconcileRoots(x1, x1.zones, x1.ip)

\* CloudflareAPI.updateRootDomainRecords
updateRootDomainRecords(x) == RootsWithIP(getPublicIP(x))

\* a map that is filled without being cleared first
SetZones_noClear(x1) ==
  LET listed(z) == \E k \in 1..Len(x1.result) : x1.result[k].name = z.name
      stale(z) == ~listed(z)
  IN [x1 EXCEPT !.zones = SelectSeq(@, stale) \o x1.result]

\* initZones: the zones map filled from the answer of getZones
SetZones(x1) == [x1 EXCEPT !.zones = x1.result]

\* CloudflareAPI.initZones
initZones(x) ==
  [updateRootDomainRecords(SetZones(getZones([x EXCEPT !.by = "initZones"])))
     EXCEPT !.by = x.by]

(***************************************************************************)
(* index.ts.                                                               *)
(***************************************************************************)
\* ensureRootDomainRecord: the create, once getPublicIP is back
EnsureCreate(x2, rootDomain) ==
  IF x2.thrown THEN x2
  ELSE createDNSRecord(x2, rootDomain,
                       RecordData(rootDomain, "A", x2.ip, TRUE))

\* ensureRootDomainRecord once the listing of the root domain is back
EnsureListed(x1, rootDomain) ==
  LET isRootA(r) == r.type = "A" /\ r.name = rootDomain
  IN IF Find(x1.result, isRootA) # <<>> THEN [x1 EXCEPT !.ret = TRUE]
     ELSE IF ~x1.auto THEN [x1 EXCEPT !.ret = FALSE]
     ELSE EnsureCreate(getPublicIP(x1), rootDomain)

\* ensureRootDomainRecord answering true without looking at the root domain
ensureRootDomainRecord_unchecked(x, domain) == [x EXCEPT !.ret = TRUE]

\* ensureRootDomainRecord (ret)
ensureRootDomainRecord(x, domain) ==
  IF getRootDomain(x.zones, domain) = <<>> THEN [x EXCEPT !.ret = FALSE]
  ELSE IF domain = getRootDomain(x.zones, domain) THEN [x EXCEPT !.ret = TRUE]
  ELSE [EnsureListed(getDNSRecords([x EXCEPT !.by = "ensureRootDomainRecord"],
                                   getRootDomain(x.zones, domain)),
                     getRootDomain(x.zones, domain))
          EXCEPT !.by = x.by]

\* updateDomainIP once the listing is back
UpdateListed(x1, domain, newIP) ==
  LET isRootA(r) == r.type = "A" /\ r.name = domain
      aRecord == Find(x1.result, isRootA)
  IN IF aRecord # <<>>
     THEN IF aRecord[1].content # newIP
          THEN updateDNSRecord(x1, domain, aRecord[1].id,
                               [DataOf(aRecord[1]) EXCEPT !.content = newIP])
          ELSE x1
     ELSE IF x1.auto
     THEN createDNSRecord(x1, domain, RecordData(domain, "A", newIP, TRUE))
     ELSE x1

\* updateDomainIP
updateDomainIP(x, domain, newIP) ==
  UpdateListed(getDNSRecords(x, domain), domain, newIP)

RECURSIVE UpdateZones(_, _, _)
UpdateZones(x, zoneList, newIP) ==
  IF zoneList = <<>> THEN x
  ELSE UpdateZones(updateDomainIP(x, Head(zoneList).name, newIP),
                   Tail(zoneList), newIP)

\* a baseline that moves only when no request of the zone loop failed
ZonesListed_unlessFailed(x2, newIP) ==
  LET x3 == UpdateZones(x2, x2.result, newIP)
  IN IF \A i \in 1..Len(x3.log) : x3.log[i].ok
     THEN [x3 EXCEPT !.currentPublicIP = newIP] ELSE x3

\* checkPublicIPChange on a changed address, once getZones is back
ZonesListed(x2, newIP) ==
  [UpdateZones(x2, x2.result, newIP) EXCEPT !.currentPublicIP = newIP]

\* a comparison that takes every address for a new one
ipChanged_always(newIP, current) == TRUE

\* newIP !== currentPublicIP (index.ts:164)
ipChanged(newIP, current) == newIP # current

\* checkPublicIPChange once getPublicIP is back
CheckWithIP(x1) ==
  IF x1.thrown THEN [x1 EXCEPT !.thrown = FALSE]
  ELSE IF x1.currentPublicIP = NoIP THEN [x1 EXCEPT !.currentPublicIP = x1.ip]
  ELSE IF ipChanged(x1.ip, x1.currentPublicIP)
  THEN ZonesListed(getZones(x1), x1.ip)
  ELSE x1

\* checkPublicIPChange
checkPublicIPChange(x) ==
  CheckWithIP(getPublicIP([x EXCEPT !.by = "checkPublicIPChange"]))

\* the domains of the hosts, in the order the nested loops visit them
RECURSIVE DomainNames(_)
DomainNames(hosts) ==
  IF hosts = <<>> THEN <<>>
  ELSE LET domains == DomainsOf(Head(hosts))
       IN [i \in 1..Len(domains) |-> Trim(domains[i])] \o DomainNames(Tail(hosts))

\* handleNPMChanges: one domain of a deleted host, once the listing is back
DeleteListed(x1, domainName) ==
  LET named(r) == r.name = domainName
      existingRecord == Find(x1.result, named)
  IN IF existingRecord # <<>>
     THEN deleteDNSRecord(x1, domainName, existingRecord[1].id)
     ELSE x1

\* handleNPMChanges: the loop over the deleted hosts
RECURSIVE DeleteDomains(_, _)
DeleteDomains(x, domains) ==
  IF domains = <<>> \/ x.thrown THEN x
  ELSE DeleteDomains(DeleteListed(getDNSRecords([x EXCEPT !.item = @ + 1],
                                                Head(domains)),
                                  Head(domains)),
                     Tail(domains))

\* the record handleNPMChanges creates for a subdomain
subdomainRecordData_A(domainName, rootDomain) ==
  RecordData(domainName, "A", rootDomain, TRUE)

subdomainRecordData(domainName, rootDomain) ==
  RecordData(domainName, "CNAME", rootDomain, TRUE)

\* handleNPMChanges updating the record it found, to the content it would create
skipExisting_updates(x, domainName, rootDomain, existingRecord) ==
  updateDNSRecord(x, domainName, existingRecord.id,
                  [DataOf(existingRecord) EXCEPT !.content = rootDomain])

\* handleNPMChanges: the record exists, the domain is skipped
skipExisting(x, domainName, rootDomain, existingRecord) == x

\* handleNPMChanges: the A record of a root domain, once getPublicIP is back
CreateRootRecord(x3, domainName) ==
  IF x3.thrown \/ ~x3.auto THEN x3
  ELSE createDNSRecord(x3, domainName,
                       RecordData(domainName, "A", x3.ip, TRUE))

\* handleNPMChanges: a changed domain, once the listing of its records is back
ChangeListed(x2, domainName, rootDomain) ==
  LET named(r) == r.name = domainName
      existingRecord == Find(x2.result, named)
  IN IF existingRecord # <<>>
     THEN skipExisting(x2, domainName, rootDomain, existingRecord[1])
     ELSE IF domainName # rootDomain
     THEN createDNSRecord(x2, domainName,
                          subdomainRecordData(domainName, rootDomain))
     ELSE CreateRootRecord(getPublicIP(x2), domainName)

\* handleNPMChanges: a changed domain, once the root domain is ensured
ChangeEnsured(x1, domainName, rootDomain) ==
  IF x1.thrown \/ ~x1.ret THEN x1
  ELSE ChangeListed(getDNSRecords(x1, domainName), domainName, rootDomain)

\* handleNPMChanges: one domain of a changed host
ChangeDomain(x, domainName) ==
  ChangeEnsured(IF domainName # getRootDomain(x.zones, domainName)
                THEN ensureRootDomainRecord(x, domainName)
                ELSE [x EXCEPT !.ret = TRUE],
                domainName, getRootDomain(x.zones, domainName))

\* handleNPMChanges: the loop over the changed hosts
RECURSIVE ChangeDomains(_, _)
ChangeDomains(x, domains) ==
  IF domains = <<>> \/ x.thrown THEN x
  ELSE ChangeDomains(ChangeDomain([x EXCEPT !.item = @ + 1], Head(domains)),
                     Tail(domains))

\* the two loops of handleNPMChanges, each under its name
DeleteHosts(x, hosts) ==
  DeleteDomains([x EXCEPT !.by = "deletedHosts"], DomainNames(hosts))

ChangeHosts(x, hosts) ==
  ChangeDomains([x EXCEPT !.by = "changedHosts"], DomainNames(hosts))

\* handleNPMChanges with the two loops in the other order
handleNPMChanges_changedFirst(x, changedHosts, deletedHosts) ==
  DeleteHosts(ChangeHosts(initZones([x EXCEPT !.zones = <<>>]), changedHosts),
              deletedHosts)

\* handleNPMChanges, on a client of its own
handleNPMChanges(x, changedHosts, deletedHosts) ==
  ChangeHosts(DeleteHosts(initZones([x EXCEPT !.zones = <<>>]), deletedHosts),
              changedHosts)

(***************************************************************************)
(* The orchestrator's steps.  A handler runs from entry to return in one   *)
(* step; its requests are in sync.log in the order it issued them.         *)
(***************************************************************************)
\* the environment's choices for one handler invocation: the requests that
\* fail and the address the providers yield; none fails after the recovery
Oracle ==
  IF healthy THEN {{}} \X IPs ELSE FailureSets \X (IPs \cup {NoIP})

NoSync ==
  [op |-> "", log |-> <<>>, before |-> <<>>, baseline |-> NoIP, ip |-> NoIP,
   thrown |-> FALSE, zones |-> <<>>]

SyncEvent(op, x) ==
  [op |-> op, log |-> x.log, before |-> cfRecords,
   baseline |-> currentPublicIP, ip |-> x.ip, thrown |-> x.thrown,
   zones |-> x.zones]

\* what an invocation leaves behind
Settle(op, x) ==
  /\ cfRecords' = x.records
  /\ cachedIP' = x.cachedIP
  /\ lastCheck' = x.lastCheck
  /\ currentPublicIP' = x.currentPublicIP
  /\ sync' = SyncEvent(op, x)
  /\ UNCHANGED <<now, autoCreateRootRecords>>

\* what main's start-up leaves behind: the client it keeps has the zones map
SettleMain(x) == Settle("main", x) /\ zones' = x.zones

\* main, up to the first address check (index.ts:309-314)
Main ==
  /\ ~started
  /\ \E o \in Oracle :
       SettleMain(checkPublicIPChange(
                    initZones([Context(o[1], o[2]) EXCEPT !.zones = <<>>])))
  /\ started' = TRUE
  /\ UNCHANGED invocations

\* the address check the interval of main fires (index.ts:315-319), while
\* fewer than limit invocations have been followed
IntervalCheck(limit) ==
  /\ started
  /\ invocations < limit
  /\ invocations' = invocations + 1
  /\ \E o \in Oracle :
       Settle("checkPublicIPChange",
              checkPublicIPChange(Context(o[1], o[2])))
  /\ UNCHANGED <<started, zones>>

CheckPublicIPChange == IntervalCheck(MaxInvocations)

\* the hosts the monitor may hand over
HostRootAndWww ==
  NPMHost(3, DnString(ZoneExample \o <<",", " ">> \o WwwExample),
          "10.0.0.7", 80, "2024-01-01T00:00:00.000Z")

HostChanges ==
  LET lists == {<<>>, <<Host1Base>>, <<HostRootAndWww>>,
                <<Host1Base, HostRootAndWww>>}
  IN {hc \in lists \X lists :
        /\ Ids(hc[1]) \cap Ids(hc[2]) = {}
        /\ hc[1] # <<>> \/ hc[2] # <<>>}

\* the monitor calls back with changed and deleted hosts
HandleNPMChanges ==
  /\ started
  /\ invocations < MaxInvocations
  /\ invocations' = invocations + 1
  /\ \E o \in Oracle, hc \in HostChanges :
       Settle("handleNPMChanges",
              handleNPMChanges(Context(o[1], o[2]), hc[1], hc[2]))
  /\ UNCHANGED <<started, zones>>

\* time passes
Tick ==
  /\ now < MaxNow
  /\ now' = now + TickMs
  /\ sync' = NoSync
  /\ UNCHANGED <<cfRecords, cachedIP, lastCheck, currentPublicIP, started,
                 zones, autoCreateRootRecords, invocations>>

\* the records Cloudflare may hold at the start
InitialRecords ==
  { <<>>,
    << DNSRecord(1, "zone-com", ZoneExample, "A", <<"1.2.3.4">>, TRUE) >>,
    << DNSRecord(1, "zone-com", ZoneExample, "A", <<"1.2.3.4">>, TRUE),
       DNSRecord(2, "zone-com", SubExample, "CNAME", ZoneExample, TRUE) >>,
    << DNSRecord(1, "zone-com", ZoneExample, "A", <<"1.2.3.4">>, TRUE),
       DNSRecord(2, "zone-com", Wildcard(ZoneExample), "A", <<"1.2.3.4">>, TRUE) >>,
    << DNSRecord(1, "zone-com", ZoneExample, "A", <<"1.2.3.4">>, TRUE),
       DNSRecord(2, "zone-org", ZoneOrg, "A", <<"1.2.3.4">>, TRUE) >>,
    << DNSRecord(1, "zone-com", SubExample, "CNAME", ZoneExample, TRUE),
       DNSRecord(2, "zone-org", ZoneOrg, "A", <<"5.6.7.8">>, TRUE) >> }

\* the state before main runs
SyncIdle ==
  /\ cfRecords = <<>>
  /\ cachedIP = NoIP
  /\ lastCheck = 0
  /\ now = 0
  /\ currentPublicIP = NoIP
  /\ started = FALSE
  /\ zones = <<>>
  /\ autoCreateRootRecords = FALSE
  /\ invocations = 0
  /\ sync = NoSync

(***************************************************************************)
(***************************************************************************)
(* CloudflareAPI.makeRequest, attempt by attempt.                          *)
(***************************************************************************)
(***************************************************************************)
\* CloudflareAPI.maxRetries, retryDelay and the cap of delay()
cfMaxRetries == 3
retryDelay == 1000
maxDelay == 10000

Num(n) == [nan |-> FALSE, t |-> n]

\* response.headers.get('Retry-After'): null when the header is absent
NoHeader == "null"
HttpDate == "Thu, 05 Nov 2026 12:00:30 GMT"
RetryAfterValues == {NoHeader, "", "0", "2", HttpDate}

\* parseInt(text, 10): the leading decimal integer, or NaN without one
parseInt10(text) ==
  CASE text = "0" -> Num(0)
    [] text = "2" -> Num(2)
    [] OTHER      -> NaN

\* a * k on numbers
Times(a, k) == IF a.nan THEN NaN ELSE Num(a.t * k)

\* setTimeout(resolve, ms): the delay of the timer, which is 1 for a delay
\* that is NaN or below 1
setTimeout(ms) == IF ms.nan \/ ms.t < 1 THEN 1 ELSE ms.t

\* what one fetch may end with: a response (status, kind of body, the
\* Retry-After header, the messages of the body's errors array) or a
\* transport error
Response(status, body, retryAfter) ==
  [kind |-> "response", status |-> status, body |-> body,
   retryAfter |-> retryAfter, errors |-> <<>>]
TransportError ==
  [kind |-> "error", status |-> 0, body |-> "", retryAfter |-> NoHeader,
   errors |-> <<>>]
ErrorLists == {<<>>, <<"first">>, <<"first", "second">>}
FetchOutcomes ==
  {Response(200, b, NoHeader) : b \in {"success", "invalid"}}
    \cup {[Response(200, "failure", NoHeader) EXCEPT !.errors = es] :
            es \in ErrorLists}
    \cup {Response(st, "errors", NoHeader) :
            st \in {400, 401, 403, 404, 409, 500, 503, 530}}
    \cup {Response(429, "errors", h) : h \in RetryAfterValues}
    \cup {TransportError}

\* response.ok
ResponseOk(status) == status >= 200 /\ status <= 299

\* the errors makeRequest handles: a CloudflareError with its statusCode,
\* or another error (a rejected fetch, a body that is no JSON); `attempt`
\* tells which attempt raised it
NoError == [cloudflare |-> FALSE, statusCode |-> 0, attempt |-> -1]
CloudflareError(statusCode, attempt) ==
  [cloudflare |-> TRUE, statusCode |-> statusCode, attempt |-> attempt]
OtherError(attempt) ==
  [cloudflare |-> FALSE, statusCode |-> 0, attempt |-> attempt]

\* what an attempt ends with: the call returns, throws, or waits and goes on
Returns == [kind |-> "return", wait |-> 0, error |-> NoError]
Throws(error) == [kind |-> "throw", wait |-> 0, error |-> error]
Continues(wait, error) == [kind |-> "continue", wait |-> wait, error |-> error]

\* a delay that does not grow with the attempt
delay_flat(attempt) == setTimeout(Num(retryDelay))

\* delay(attempt) (56-59): retryDelay * 2^attempt, capped
delay(attempt) == setTimeout(Num(Min(retryDelay * (2 ^ attempt), maxDelay)))

\* a budget that never runs out
attemptsLeft_always(attempt) == TRUE

\* attempt < this.maxRetries - 1 (124, 139, 188)
attemptsLeft(attempt) == attempt < cfMaxRetries - 1

\* a test that takes every error status for a server error
isServerError_any(status) == status >= 400

\* response.status >= 500 (139)
isServerError(status) == status >= 500

\* the wait of the 429 branch (125-128)
rateLimitWait(retryAfter) ==
  setTimeout(IF retryAfter # NoHeader /\ retryAfter # ""
             THEN Times(parseInt10(retryAfter), 1000)
             ELSE Num(retryDelay))

\* a catch block that retries every error but the 530 one
catchBlock_retriesCloudflareErrors(attempt, error, lastError) ==
  IF error.cloudflare /\ error.statusCode = 530 THEN Throws(error)
  ELSE IF attemptsLeft(attempt) THEN Continues(delay(attempt), error)
  ELSE Throws(error)

\* the catch block (169-194); `error` has become lastError
catchBlock(attempt, error, lastError) ==
  IF error.cloudflare /\ error.statusCode = 530 THEN Throws(error)
  ELSE IF ~error.cloudflare /\ attemptsLeft(attempt)
       THEN Continues(delay(attempt), error)
  ELSE Throws(error)

\* a test that takes every parsed body for a success
dataSuccess_any(body) == TRUE

\* data.success (155) of a body that parsed
dataSuccess(body) == body = "success"

\* the message of the CloudflareError thrown for a 2xx body without success
\* (157): `${context} failed: ${data.errors[0]?.message || 'Unknown error'}`
failureMessage(errors) ==
  <<"context", " failed: ",
    IF errors # <<>> THEN errors[1] ELSE "Unknown error">>

\* one iteration of the loop (72-194) on what the fetch ended with
tryBlock(attempt, o, lastError) ==
  IF o.kind = "error" THEN catchBlock(attempt, OtherError(attempt), lastError)
  ELSE IF ~ResponseOk(o.status)
  THEN CASE o.status = 530 ->
              catchBlock(attempt, CloudflareError(530, attempt), lastError)
         [] o.status = 429 ->
              IF attemptsLeft(attempt)
              THEN Continues(rateLimitWait(o.retryAfter), lastError)
              ELSE catchBlock(attempt, CloudflareError(429, attempt), lastError)
         [] o.status = 403 ->
              catchBlock(attempt, CloudflareError(403, attempt), lastError)
         [] OTHER ->
              IF isServerError(o.status) /\ attemptsLeft(attempt)
              THEN Continues(delay(attempt), lastError)
              ELSE catchBlock(attempt, CloudflareError(o.status, attempt),
                              lastError)
  ELSE IF o.body = "invalid"
  THEN catchBlock(attempt, OtherError(attempt), lastError)
  ELSE IF ~dataSuccess(o.body)
  THEN catchBlock(attempt, CloudflareError(o.status, attempt), lastError)
  ELSE Returns

NoCall ==
  [pc |-> "idle", attempt |-> 0, requests |-> <<>>, waits |-> <<>>,
   lastError |-> NoError, error |-> NoError, message |-> <<>>]

\* makeRequest is called
BeginRequest ==
  /\ call.pc \in {"idle", "returned", "threw"}
  /\ call' = [NoCall EXCEPT !.pc = "fetch"]
  /\ UNCHANGED <<process, healthy, lookup, probe>>

\* the fetch of an attempt (79) ends and the iteration runs to its return,
\* its throw, or the start of its wait; a loop that runs out throws
\* lastError (197).  The message of the thrown error is kept for the 2xx
\* body without success.
Fetch ==
  /\ call.pc = "fetch"
  /\ \E o \in FetchOutcomes :
       LET e == tryBlock(call.attempt, o, call.lastError)
           sent == [call EXCEPT !.requests = Append(@, o)]
       IN call' =
            CASE e.kind = "return" -> [sent EXCEPT !.pc = "returned"]
              [] e.kind = "throw" ->
                   [sent EXCEPT !.pc = "threw", !.error = e.error,
                                !.lastError = e.error,
                                !.message =
                                   IF o.kind = "response" /\ o.body = "failure"
                                   THEN failureMessage(o.errors) ELSE <<>>]
              [] OTHER ->
                   [sent EXCEPT !.pc = "wait", !.waits = Append(@, e.wait),
                                !.lastError = e.error]
  /\ UNCHANGED <<process, healthy, lookup, probe>>

\* the timer of a wait fires and the loop goes on (71)
WaitElapses ==
  /\ call.pc = "wait"
  /\ call' = IF call.attempt + 1 < cfMaxRetries
             THEN [call EXCEPT !.pc = "fetch", !.attempt = @ + 1]
             ELSE [call EXCEPT !.pc = "threw", !.attempt = @ + 1,
                               !.error = call.lastError]
  /\ UNCHANGED <<process, healthy, lookup, probe>>

(***************************************************************************)
(***************************************************************************)
(* public-ip.ts: getPublicIP, provider by provider.                        *)
(***************************************************************************)
(***************************************************************************)
MAX_RETRIES == 3

\* the services array (22-43)
services == <<"api64.ipify.org", "ip.seeip.org", "api.myip.com",
              "ifconfig.me", "icanhazip.com">>

\* what service.extract may yield for a response that came back ok
ProviderTexts ==
  {"1.2.3.4", "5.6.7.8", "999.999.999.999", "", "1.2.3", "::1", "<html>"}

\* /^\d{1,3}\.\d{1,3}\.\d{1,3}\.\d{1,3}$/.test(ip): four groups of one to
\* three digits
isIPv4Syntax(text) == text \in {"1.2.3.4", "5.6.7.8", "999.999.999.999"}

\* what one attempt at a service may end with: a rejected or timed-out
\* fetch, a response that is not ok, or an extracted text
ProviderOutcomes ==
  {[kind |-> "error", text |-> ""], [kind |-> "status", text |-> ""]}
    \cup {[kind |-> "text", text |-> t] : t \in ProviderTexts}

\* the attempt passes the checks of lines 70 and 83
attemptSucceeds(o) == o.kind = "text" /\ o.text # "" /\ isIPv4Syntax(o.text)

\* a cache test that never holds
cacheValid_never(cached, age) == FALSE

\* cachedIP && now - lastCheck < CACHE_DURATION (16)
cacheValid(cached, age) == cached # NoIP /\ age < CACHE_DURATION

\* a loop that gives each service one attempt
moreAttempts_never(attempt) == FALSE

\* the inner loop has an attempt left after this one (49)
moreAttempts(attempt) == attempt + 1 < MAX_RETRIES

\* an end of the call that throws whatever the cache holds
allFailed_throws(l, cached) == [l EXCEPT !.pc = "threw"]

\* the end of the call after every service failed (121-142)
allFailed(l, cached) ==
  IF cached # NoIP
  THEN [l EXCEPT !.pc = "returned", !.ret = cached, !.how = "fallback"]
  ELSE [l EXCEPT !.pc = "threw"]

\* entry holds the cache as the call found it; tried lists the service of
\* every attempt made; resolved tells whether a call ever got an address
\* from a service
NoLookup ==
  [pc |-> "idle", service |-> 1, attempt |-> 0, now |-> 0, tried |-> <<>>,
   ret |-> NoIP, how |-> "",
   entry |-> [cachedIP |-> NoIP, lastCheck |-> 0], resolved |-> FALSE]

\* getPublicIP is called (12-19)
LookupBegin ==
  /\ lookup.pc \in {"idle", "returned", "threw"}
  /\ LET l == [NoLookup EXCEPT !.now = now,
                               !.entry = [cachedIP |-> cachedIP,
                                          lastCheck |-> lastCheck],
                               !.resolved = lookup.resolved]
     IN lookup' = IF cacheValid(cachedIP, now - lastCheck)
                  THEN [l EXCEPT !.pc = "returned", !.ret = cachedIP,
                                 !.how = "cache"]
                  ELSE [l EXCEPT !.pc = "fetch"]
  /\ UNCHANGED <<cachedIP, lastCheck>>

\* one attempt at a service (50-117), up to the return, the wait before the
\* next attempt, the first attempt at the next service, or the end
LookupFetch ==
  /\ lookup.pc = "fetch"
  /\ \E o \in ProviderOutcomes :
       LET l == [lookup EXCEPT !.tried = Append(@, lookup.service)]
       IN IF attemptSucceeds(o)
          THEN /\ cachedIP' = <<o.text>>
               /\ lastCheck' = lookup.now
               /\ lookup' = [l EXCEPT !.pc = "returned", !.ret = <<o.text>>,
                                      !.how = "service", !.resolved = TRUE]
          ELSE /\ lookup' =
                    IF moreAttempts(lookup.attempt)
                    THEN [l EXCEPT !.pc = "wait"]
                    ELSE IF lookup.service < Len(services)
                    THEN [l EXCEPT !.service = @ + 1, !.attempt = 0]
                    ELSE allFailed(l, cachedIP)
               /\ UNCHANGED <<cachedIP, lastCheck>>

\* the RETRY_DELAY timer fires (113-116)
LookupWait ==
  /\ lookup.pc = "wait"
  /\ lookup' = [lookup EXCEPT !.pc = "fetch", !.attempt = @ + 1]
  /\ UNCHANGED <<cachedIP, lastCheck>>

(***************************************************************************)
(* getRootDomain on its own: names spelled character by character, so that *)
(* endsWith and length are those of the strings.                           *)
(***************************************************************************)
\* "b.com", "a.b.com", "c.org", "xb.com"
NameBCom == <<"b", ".", "c", "o", "m">>
NameABCom == <<"a", ".">> \o NameBCom
NameCOrg == <<"c", ".", "o", "r", "g">>
NameXBCom == <<"x">> \o NameBCom

ProbeZoneNames == {NameBCom, NameABCom, NameCOrg, NameXBCom}

\* "sub.a.b.com", "www.b.com", "d.net", "com", "" and the zone names
Hostnames ==
  ProbeZoneNames \cup {<<"s", "u", "b", ".">> \o NameABCom,
                   <<"w", "w", "w", ".">> \o NameBCom,
                   <<"d", ".", "n", "e", "t">>,
                   <<"c", "o", "m">>,
                   <<>>}

\* the id Cloudflare gives the zone of a name
ZoneIdOf(name) == <<"id-">> \o name

\* the zone maps: every set of zones in every insertion order, which is the
\* order in which Map.keys() iterates
ZoneMaps ==
  {[i \in DOMAIN names |-> [id |-> ZoneIdOf(names[i]), name |-> names[i]]] :
     names \in {ns \in UNION {[1..n -> ProbeZoneNames] :
                                n \in 0..Cardinality(ProbeZoneNames)} :
                  \A i, j \in DOMAIN ns : ns[i] = ns[j] => i = j}}

\* what an operation of the client returns
ArrayOf(items) == [type |-> "array", items |-> items, flag |-> FALSE]
ObjectOf(item) == [type |-> "object", items |-> <<item>>, flag |-> FALSE]
BooleanOf(flag) == [type |-> "boolean", items |-> <<>>, flag |-> flag]
NullValue == [type |-> "null", items |-> <<>>, flag |-> FALSE]
Undefined == [type |-> "undefined", items |-> <<>>, flag |-> FALSE]

\* A call of a public operation of the client.  For getRootDomain: zones
\* holds the zone map as the call found it, result what it returned and
\* again what it returned for that result.  For the operations that issue
\* requests: op is the operation, domain and type its arguments, pc where
\* it is ("request" while a makeRequest call runs, "lookup" while
\* getPublicIP runs, "done" once it has returned or thrown), inner the
\* method that issued the running request, index the zone initZones is at,
\* ip the address it got, failed the methods whose request or lookup threw,
\* error the error makeRequest threw to the operation's own method, value
\* what it returned, threw whether it ended by throwing.
NoProbe ==
  [called |-> FALSE, zones |-> <<>>, domain |-> <<>>, result |-> <<>>,
   again |-> <<>>, op |-> "", type |-> "", pc |-> "idle", inner |-> "",
   index |-> 0, ip |-> NoIP, failed |-> {}, error |-> NoError,
   value |-> Undefined, threw |-> FALSE]

\* getRootDomain(domain) is called, and called again on what it returned
GetRootDomain ==
  /\ \E domain \in Hostnames :
       LET result == getRootDomain(zones, domain)
       IN probe' = [NoProbe EXCEPT !.called = TRUE, !.zones = zones,
                                   !.domain = domain, !.result = result,
                                   !.again = getRootDomain(zones, result)]
  /\ UNCHANGED <<monVars, call, process, healthy, lookup, cfRecords,
                 cachedIP, lastCheck, now, currentPublicIP, started, zones,
                 autoCreateRootRecords, invocations, sync>>

\* initZones replaces the zone map (232-235)
ReplaceZones ==
  /\ zones' \in ZoneMaps
  /\ UNCHANGED <<monVars, procVars, cfRecords, cachedIP, lastCheck, now,
                 currentPublicIP, started, autoCreateRootRecords,
                 invocations, sync>>

(***************************************************************************)
(* The public operations of CloudflareAPI, request by request: each        *)
(* makeRequest call runs attempt by attempt, and what it returns or throws *)
(* goes through the try and catch blocks of the method that issued it.     *)
(***************************************************************************)
PublicOps ==
  {"getZones", "getDNSRecords", "createDNSRecord", "updateDNSRecord",
   "deleteDNSRecord", "initZones"}

\* the arguments of a call: a zone's root with an A record, a name below it
\* with a CNAME, a name in no zone
ClientArgs ==
  {<<ZoneExample, "A">>, <<SubExample, "CNAME">>,
   <<<<"other", ".", "net">>, "A">>}

\* what the listing of a zone may hold
Listings(zoneId, zoneName) ==
  {<<>>,
   <<DNSRecord(1, zoneId, zoneName, "A", <<"1.2.3.4">>, TRUE)>>,
   <<DNSRecord(1, zoneId, zoneName, "A", <<"5.6.7.8">>, TRUE)>>,
   <<DNSRecord(2, zoneId, Wildcard(zoneName), "A", <<"1.2.3.4">>, TRUE)>>}

\* a catch block that lets everything but a CloudflareError through
catches_onlyCloudflareError(error) == error.cloudflare

\* catch (error) { ... } of getZones (212-222), updateRootDomainRecords
\* (292-294), getDNSRecords (335-346), createDNSRecord (412-423),
\* updateDNSRecord (465-476) and deleteDNSRecord (503-514): every error is
\* logged and none is thrown again
catches(error) == TRUE

\* the method whose request runs: hasWildcardARecord and
\* updateRootDomainRecords list through getDNSRecords
MethodOf(inner) ==
  IF inner \in {"hasWildcardARecord", "updateRootDomainRecords"}
  THEN "getDNSRecords" ELSE inner

Request(p, inner) == [p EXCEPT !.pc = "request", !.inner = inner]
Return(p, value) == [p EXCEPT !.pc = "done", !.inner = "", !.value = value]
Propagate(p, error) ==
  [p EXCEPT !.pc = "done", !.inner = "", !.threw = TRUE, !.error = error]

\* an operation from its entry to its first request, or to its return when
\* no zone matches the domain (322-326, 377-381, 430-434, 483-487); a CNAME
\* is created or updated after hasWildcardARecord (384, 437)
Enter(p, zoneMap) ==
  LET known == getZoneIdForDomain(zoneMap, p.domain) # ""
  IN CASE p.op \in {"getZones", "initZones"} -> Request(p, "getZones")
       [] p.op = "getDNSRecords" ->
            IF known THEN Request(p, p.op) ELSE Return(p, ArrayOf(<<>>))
       [] p.op = "deleteDNSRecord" ->
            IF known THEN Request(p, p.op) ELSE Return(p, BooleanOf(FALSE))
       [] OTHER ->
            IF ~known THEN Return(p, NullValue)
            ELSE IF p.type = "CNAME" THEN Request(p, "hasWildcardARecord")
            ELSE Request(p, p.op)

\* updateRootDomainRecords moves to the listing of the next zone (249-250),
\* or the loop ends and initZones returns
NextZone(p, zoneMap) ==
  IF p.index < Len(zoneMap)
  THEN [Request(p, "updateRootDomainRecords")
          EXCEPT !.index = @ + 1, !.domain = zoneMap[p.index + 1].name,
                 !.type = "A"]
  ELSE Return(p, Undefined)

\* the caller of getDNSRecords goes on with the records it got: the
\* operation itself returns them, hasWildcardARecord looks for the wildcard
\* (357-370, 385-393), updateRootDomainRecords for the root A record
\* (251-290)
AfterListing(p, zoneMap, records) ==
  LET rootDomain == getRootDomain(zoneMap, p.domain)
      isWildcard(r) == r.type = "A" /\ r.name = Wildcard(rootDomain)
      isRootA(r) == r.type = "A" /\ r.name = p.domain
      aRecord == Find(records, isRootA)
  IN CASE p.inner = "getDNSRecords" -> Return(p, ArrayOf(records))
       [] p.inner = "hasWildcardARecord" ->
            IF Find(records, isWildcard) # <<>> THEN Return(p, NullValue)
            ELSE Request(p, p.op)
       [] OTHER ->
            IF aRecord = <<>> THEN Request(p, "createDNSRecord")
            ELSE IF aRecord[1].content # p.ip
            THEN Request(p, "updateDNSRecord")
            ELSE NextZone(p, zoneMap)

\* a public operation is called
ClientCall ==
  /\ probe.pc \in {"idle", "done"}
  /\ \/ \E op \in {"getZones", "initZones"} :
          probe' = Enter([NoProbe EXCEPT !.op = op], zones)
     \/ \E op \in PublicOps \ {"getZones", "initZones"}, args \in ClientArgs :
          probe' = Enter([NoProbe EXCEPT !.op = op, !.domain = args[1],
                                         !.type = args[2]], zones)
  /\ UNCHANGED <<monVars, syncVars, call, process, healthy, lookup>>

\* the method that is due issues its request
ClientBegin ==
  /\ probe.pc = "request"
  /\ call.pc = "idle"
  /\ BeginRequest
  /\ UNCHANGED <<monVars, syncVars>>

ClientFetch == probe.pc = "request" /\ Fetch /\ UNCHANGED <<monVars, syncVars>>

ClientWait ==
  probe.pc = "request" /\ WaitElapses /\ UNCHANGED <<monVars, syncVars>>

\* makeRequest has returned or thrown, and the method that called it runs
\* on: to its return, to the next request of the operation, or, in
\* initZones after getZones, to zones.clear(), zones.set (230-233) and
\* getPublicIP (246)
RequestSettles ==
  /\ probe.pc = "request"
  /\ call.pc \in {"returned", "threw"}
  /\ call' = NoCall
  /\ \E records \in Listings(getZoneIdForDomain(zones, probe.domain),
                            getRootDomain(zones, probe.domain)) :
       LET returned == call.pc = "returned"
           p == IF returned THEN probe
                ELSE [probe EXCEPT !.failed = @ \cup {MethodOf(probe.inner)},
                                   !.error = IF MethodOf(probe.inner) = probe.op
                                             THEN call.error ELSE @]
           listed == IF returned THEN CloudflareZones ELSE <<>>
           created ==
             ObjectOf(DNSRecord(3, getZoneIdForDomain(zones, probe.domain),
                                probe.domain, probe.type, <<"1.2.3.4">>, TRUE))
       IN IF ~returned /\ ~catches(call.error)
          THEN probe' = Propagate(p, call.error) /\ UNCHANGED zones
          ELSE IF probe.inner = "getZones"
          THEN IF probe.op = "initZones"
               THEN /\ zones' = listed
                    /\ probe' = [p EXCEPT !.pc = "lookup",
                                          !.inner = "getPublicIP"]
               ELSE probe' = Return(p, ArrayOf(listed)) /\ UNCHANGED zones
          ELSE /\ UNCHANGED zones
               /\ probe' =
                    CASE probe.inner = "deleteDNSRecord" ->
                           Return(p, BooleanOf(returned))
                      [] probe.inner \in {"createDNSRecord", "updateDNSRecord"} ->
                           IF probe.op = "initZones" THEN NextZone(p, zones)
                           ELSE Return(p, IF returned THEN created
                                          ELSE NullValue)
                      [] OTHER ->
                           AfterListing(p, zones,
                                        IF returned THEN records ELSE <<>>)
  /\ UNCHANGED <<monVars, cfRecords, cachedIP, lastCheck, now,
                 currentPublicIP, started, autoCreateRootRecords,
                 invocations, sync, process, healthy, lookup>>

ClientLookupVars ==
  <<monVars, call, process, healthy, probe, cfRecords, now, currentPublicIP,
    started, zones, autoCreateRootRecords, invocations, sync>>

\* getPublicIP of updateRootDomainRecords (246), step by step
ClientLookupBegin ==
  /\ probe.pc = "lookup"
  /\ lookup.pc = "idle"
  /\ LookupBegin
  /\ UNCHANGED ClientLookupVars

ClientLookupFetch ==
  probe.pc = "lookup" /\ LookupFetch /\ UNCHANGED ClientLookupVars

ClientLookupWait ==
  probe.pc = "lookup" /\ LookupWait /\ UNCHANGED ClientLookupVars

\* getPublicIP has returned or thrown: the loop over the zones starts (249),
\* or the catch block of updateRootDomainRecords ends the call (292-294)
LookupSettles ==
  /\ probe.pc = "lookup"
  /\ lookup.pc \in {"returned", "threw"}
  /\ lookup' = [NoLookup EXCEPT !.resolved = lookup.resolved]
  /\ probe' =
       IF lookup.pc = "returned"
       THEN NextZone([probe EXCEPT !.ip = lookup.ret], zones)
       ELSE LET p == [probe EXCEPT !.failed = @ \cup {"getPublicIP"}]
            IN IF catches(OtherError(0)) THEN Return(p, Undefined)
               ELSE Propagate(p, OtherError(0))
  /\ UNCHANGED <<monVars, syncVars, call, process, healthy>>

\* the process and the call before anything runs
ProcIdle ==
  /\ call = NoCall
  /\ process = "load"
  /\ healthy = FALSE
  /\ lookup = NoLookup
  /\ probe = NoProbe

(***************************************************************************)
(* SpecRootDomain: getRootDomain applied to every hostname under every     *)
(* zone map.                                                               *)
(***************************************************************************)
InitRootDomain ==
  /\ InitFields
  /\ npmHosts = <<>>
  /\ SyncIdle
  /\ ProcIdle

NextRootDomain ==
  \/ GetRootDomain
  \/ ReplaceZones

SpecRootDomain == InitRootDomain /\ [][NextRootDomain]_vars

(***************************************************************************)
(* SpecInitZones: initZones called again and again on one client, whose    *)
(* map may hold a zone that has left the account.                          *)
(***************************************************************************)
MaxInitCalls == 2

\* the zone maps an earlier call may have left
EarlierZoneMaps ==
  {<<>>, CloudflareZones, <<[id |-> "zone-net", name |-> <<"old", ".", "net">>]>>}

\* cf.initZones() from entry to return; probe.zones is the map it found
InitZonesCall ==
  /\ invocations < MaxInitCalls
  /\ invocations' = invocations + 1
  /\ \E o \in Oracle :
       LET x == initZones(Context(o[1], o[2]))
       IN /\ Settle("initZones", x)
          /\ zones' = x.zones
  /\ probe' = [NoProbe EXCEPT !.zones = zones]
  /\ UNCHANGED <<monVars, call, process, healthy, lookup, started>>

InitInitZones ==
  /\ InitFields
  /\ npmHosts = <<>>
  /\ cfRecords \in InitialRecords
  /\ cachedIP = NoIP
  /\ lastCheck = 0
  /\ now = 0
  /\ currentPublicIP = NoIP
  /\ started = FALSE
  /\ zones \in EarlierZoneMaps
  /\ autoCreateRootRecords = FALSE
  /\ invocations = 0
  /\ sync = NoSync
  /\ ProcIdle

NextInitZones ==
  \/ InitZonesCall
  \/ Tick /\ UNCHANGED <<monVars, procVars>>

SpecInitZones == InitInitZones /\ [][NextInitZones]_vars

(***************************************************************************)
(* SpecClient: one public operation of the client after another, under     *)
(* every outcome of every request and of every address lookup.             *)
(***************************************************************************)
InitClient == InitFields /\ npmHosts = <<>> /\ SyncIdle /\ ProcIdle

NextClient ==
  \/ ClientCall
  \/ ClientBegin
  \/ ClientFetch
  \/ ClientWait
  \/ RequestSettles
  \/ ClientLookupBegin
  \/ ClientLookupFetch
  \/ ClientLookupWait
  \/ LookupSettles

SpecClient == InitClient /\ [][NextClient]_vars

(***************************************************************************)
(* SpecRequest: one makeRequest call after another, under every sequence   *)
(* of fetch outcomes.                                                      *)
(***************************************************************************)
InitRequest == InitFields /\ npmHosts = <<>> /\ SyncIdle /\ ProcIdle

NextRequest ==
  /\ UNCHANGED <<monVars, syncVars>>
  /\ \/ BeginRequest
     \/ Fetch
     \/ WaitElapses

SpecRequest == InitRequest /\ [][NextRequest]_vars

(***************************************************************************)
(* SpecPublicIP: one getPublicIP call after another while time passes.     *)
(***************************************************************************)
InitPublicIP == InitFields /\ npmHosts = <<>> /\ SyncIdle /\ ProcIdle

LookupStep ==
  /\ \/ LookupBegin
     \/ LookupFetch
     \/ LookupWait
  /\ UNCHANGED <<monVars, call, process, healthy, probe, cfRecords, now,
                 currentPublicIP, started, zones, autoCreateRootRecords,
                 invocations, sync>>

NextPublicIP ==
  \/ LookupStep
  \/ Tick /\ UNCHANGED <<monVars, procVars>>

SpecPublicIP == InitPublicIP /\ [][NextPublicIP]_vars

(***************************************************************************)
(* SpecDiff: the monitor with every host list of HostLists, following one  *)
(* activation of the monitor closure at a time.                            *)
(***************************************************************************)
InitDiff == InitFields /\ npmHosts \in HostLists /\ SyncIdle /\ ProcIdle

NextDiff ==
  /\ UNCHANGED <<syncVars, procVars>>
  /\\/ StartMonitoring(1)
    \/ StopMonitoring
    \/ IntervalTick(1)
    \/ NPMEdit(HostLists)
    \/ GetHeaders(1)
    \/ FetchProxyHosts(1)
    \/ CallbackSettles(1)

SpecDiff == InitDiff /\ [][NextDiff]_vars

(***************************************************************************)
(* SpecMonitor: the monitor with overlapping activations of the monitor    *)
(* closure, over few host lists.                                           *)
(***************************************************************************)
FewHostLists == {<<>>, <<Host1Base>>}

InitMonitor == InitFields /\ npmHosts \in FewHostLists /\ SyncIdle /\ ProcIdle

NextMonitor ==
  /\ UNCHANGED <<syncVars, procVars>>
  /\\/ StartMonitoring(MaxRuns)
    \/ StopMonitoring
    \/ IntervalTick(MaxRuns)
    \/ NPMEdit(FewHostLists)
    \/ \E r \in 1..MaxRuns : GetHeaders(r)
    \/ \E r \in 1..MaxRuns : FetchProxyHosts(r)
    \/ \E r \in 1..MaxRuns : CallbackSettles(r)
  \* calls are followed up to their first 401 and counters up to the threshold
  /\ \A r \in 1..MaxRuns : runs'[r].reauths = 0
  /\ consecutiveFailures' <= maxConsecutiveFailures

SpecMonitor == InitMonitor /\ [][NextMonitor]_vars

(***************************************************************************)
(* SpecSync: the orchestrator against Cloudflare, with the monitor reduced *)
(* to the changes it hands over.                                           *)
(***************************************************************************)
InitSync ==
  /\ InitFields
  /\ npmHosts = <<>>
  /\ cfRecords \in InitialRecords
  /\ cachedIP = NoIP
  /\ lastCheck = 0
  /\ now = 0
  /\ currentPublicIP = NoIP
  /\ started = FALSE
  /\ zones = <<>>
  /\ autoCreateRootRecords \in BOOLEAN
  /\ invocations = 0
  /\ sync = NoSync
  /\ ProcIdle

NextSync ==
  /\ UNCHANGED <<monVars, procVars>>
  /\ \/ Main
     \/ CheckPublicIPChange
     \/ HandleNPMChanges
     \/ Tick

SpecSync == InitSync /\ [][NextSync]_vars

(***************************************************************************)
(* SpecIPCheck: main and the address checks of its interval, one after     *)
(* another while time passes.                                              *)
(***************************************************************************)
MaxChecks == 2

IPCheck == IntervalCheck(MaxChecks)

NextIPCheck ==
  /\ UNCHANGED <<monVars, procVars>>
  /\ \/ Main
     \/ IPCheck
     \/ Tick

SpecIPCheck == InitSync /\ [][NextIPCheck]_vars

(***************************************************************************)
(* SpecCycle: the service over its poll cycles, NPM answering every login  *)
(* and every host-list request with the same hosts: main, startMonitoring  *)
(* with its initial check, then the checks of the interval, each with the  *)
(* handleNPMChanges call it makes.  Cloudflare fails requests until it     *)
(* recovers.                                                               *)
(***************************************************************************)
\* one activation of the monitor closure (291-318) on monitor fields m, from
\* entry to return: getProxyHosts succeeds, the diff moves the baseline,
\* and the callback runs when a host changed or was deleted; startMonitoring
\* arms the interval after the activation it awaits (321-328)
PollCycle(m, initial) ==
  LET d == getChangesSinceLastCheck(
             [login(m, TRUE) EXCEPT !.consecutiveFailures = 0], npmHosts)
  IN /\ SetMonitor(IF initial
                   THEN [d.m EXCEPT !.monitorInterval = TRUE, !.timers = @ + 1]
                   ELSE d.m)
     /\ event' = [NoEvent EXCEPT !.diff = TRUE,
                                 !.wasInitialized = m.isInitialized,
                                 !.previous = m.lastKnownHosts,
                                 !.currentHosts = npmHosts,
                                 !.changedHosts = d.changedHosts,
                                 !.deletedHosts = d.deletedHosts]
     /\ IF Len(d.changedHosts) > 0 \/ Len(d.deletedHosts) > 0
        THEN \E o \in Oracle :
               Settle("handleNPMChanges",
                      handleNPMChanges(Context(o[1], o[2]),
                                       d.changedHosts, d.deletedHosts))
        ELSE /\ sync' = NoSync
             /\ UNCHANGED <<cfRecords, cachedIP, lastCheck, currentPublicIP,
                            now, autoCreateRootRecords>>
     /\ UNCHANGED <<runs, npmHosts, checksSinceStart, failedPolls, started,
                    zones, invocations, procVars>>

\* main calls startMonitoring (index.ts:330-331)
CycleStart ==
  /\ started
  /\ ~isMonitoring
  /\ timers = 0
  /\ PollCycle(startMonitoring(Monitor), TRUE)

\* the interval of the monitor fires (npm-monitor.ts:324-328)
CycleTick ==
  /\ timers > 0
  /\ PollCycle(Monitor, FALSE)

\* Cloudflare and the address providers recover for good
Recover ==
  /\ started
  /\ ~healthy
  /\ healthy' = TRUE
  /\ UNCHANGED <<monVars, syncVars, call, process, lookup, probe>>

InitCycle ==
  /\ InitFields
  /\ npmHosts \in {<<Host1Base>>, <<Host1Base, HostRootAndWww>>}
  /\ cfRecords \in InitialRecords
  /\ cachedIP = NoIP
  /\ lastCheck = 0
  /\ now = 0
  /\ currentPublicIP = NoIP
  /\ started = FALSE
  /\ zones = <<>>
  /\ autoCreateRootRecords \in BOOLEAN
  /\ invocations = 0
  /\ sync = NoSync
  /\ ProcIdle

NextCycle ==
  \/ Main /\ UNCHANGED <<monVars, procVars>>
  \/ CycleStart
  \/ CycleTick
  \/ Recover

\* a timer that is armed fires again and again
SpecCycle == InitCycle /\ [][NextCycle]_vars /\ WF_vars(CycleTick)

(***************************************************************************)
(* SpecHosts: the poll cycles of SpecCycle while the proxy hosts are       *)
(* edited in NPM: a host gives up one of its names, and a host is deleted  *)
(* whose name another host lists too.  Cloudflare answers every request.   *)
(***************************************************************************)
HostSubAndWww ==
  NPMHost(1, DnArray(<<SubExample, WwwExample>>), "10.0.0.5", 80,
          "2024-01-01T00:00:00.000Z")
Host3Sub ==
  NPMHost(3, DnArray(<<SubExample>>), "10.0.0.8", 80, "2024-01-01T00:00:00.000Z")

SharedNameLists ==
  {<<>>, <<Host1Base>>, <<HostSubAndWww>>, <<Host1Base, Host3Sub>>, <<Host3Sub>>}

\* records at the start that include one of another type at a host's name
RecordsWithTxt ==
  << DNSRecord(1, "zone-com", ZoneExample, "A", <<"1.2.3.4">>, TRUE),
     DNSRecord(2, "zone-com", SubExample, "TXT", <<"v=spf1">>, FALSE) >>

HostsEdit ==
  /\ NPMEdit(SharedNameLists)
  /\ sync' = NoSync
  /\ UNCHANGED <<cfRecords, cachedIP, lastCheck, now, currentPublicIP, started,
                 zones, autoCreateRootRecords, invocations, procVars>>

InitHosts ==
  /\ InitFields
  /\ npmHosts \in SharedNameLists
  /\ cfRecords \in InitialRecords \cup {RecordsWithTxt}
  /\ cachedIP = NoIP
  /\ lastCheck = 0
  /\ now = 0
  /\ currentPublicIP = NoIP
  /\ started = FALSE
  /\ zones = <<>>
  /\ autoCreateRootRecords \in BOOLEAN
  /\ invocations = 0
  /\ sync = NoSync
  /\ call = NoCall
  /\ process = "load"
  /\ healthy = TRUE
  /\ lookup = NoLookup
  /\ probe = NoProbe

NextHosts ==
  \/ Main /\ UNCHANGED <<monVars, procVars>>
  \/ CycleStart
  \/ CycleTick
  \/ HostsEdit

SpecHosts == InitHosts /\ [][NextHosts]_vars

(***************************************************************************)
(* SpecService: the process from main on, with a Cloudflare that answers   *)
(* and an NPM that may fail: main's start-up, its startMonitoring call,    *)
(* the monitor's activations one at a time, the address checks of main's   *)
(* interval, and the termination signals.  startMonitoring has no          *)
(* rejecting path: the monitor closure catches whatever getProxyHosts and  *)
(* the callback throw (npm-monitor.ts:308-316), so the catch block of main *)
(* (index.ts:332-335) has no step here.                                    *)
(***************************************************************************)
Alive == process # "exited"

\* main's start-up (index.ts:309-319)
ServiceMain == Alive /\ Main /\ UNCHANGED <<monVars, procVars>>

\* main calls startMonitoring and awaits it (index.ts:330-331)
ServiceStart ==
  /\ process = "load"
  /\ started
  /\ StartMonitoring(1)
  /\ process' = "awaiting"
  /\ UNCHANGED <<syncVars, call, healthy, lookup, probe>>

\* the promise of startMonitoring resolves: its initial check has returned
\* and the interval is armed (npm-monitor.ts:321-331)
StartMonitoringResolves ==
  /\ process = "awaiting"
  /\ InitialRuns = {}
  /\ process' = "serving"
  /\ UNCHANGED <<monVars, syncVars, call, healthy, lookup, probe>>

ServiceTick == Alive /\ IntervalTick(1) /\ UNCHANGED <<syncVars, procVars>>
ServiceHeaders == Alive /\ GetHeaders(1) /\ UNCHANGED <<syncVars, procVars>>
ServiceFetch == Alive /\ FetchProxyHosts(1) /\ UNCHANGED <<syncVars, procVars>>
ServiceCallback == Alive /\ CallbackSettles(1) /\ UNCHANGED <<syncVars, procVars>>

\* the interval of main fires (index.ts:315-319)
ServiceIPCheck == Alive /\ CheckPublicIPChange /\ UNCHANGED <<monVars, procVars>>

\* SIGTERM or SIGINT: cleanup clears the interval handles index.ts holds and
\* exits (index.ts:339-350, 356-368)
Signal ==
  /\ Alive
  /\ process' = "exited"
  /\ UNCHANGED <<monVars, syncVars, call, healthy, lookup, probe>>

InitService ==
  /\ InitFields
  /\ npmHosts \in FewHostLists
  /\ SyncIdle
  /\ call = NoCall
  /\ process = "load"
  /\ healthy = TRUE
  /\ lookup = NoLookup
  /\ probe = NoProbe

NextService ==
  \/ ServiceMain
  \/ ServiceStart
  \/ StartMonitoringResolves
  \/ ServiceTick
  \/ ServiceHeaders
  \/ ServiceFetch
  \/ ServiceCallback
  \/ ServiceIPCheck
  \/ Signal

\* the event loop runs every step of the program that is ready; a signal
\* may never come
SpecService ==
  /\ InitService
  /\ [][NextService]_vars
  /\ WF_vars(StartMonitoringResolves)
  /\ WF_vars(ServiceTick)
  /\ WF_vars(ServiceHeaders)
  /\ WF_vars(ServiceFetch)
  /\ WF_vars(ServiceCallback)
  /\ WF_vars(ServiceIPCheck)

(***************************************************************************)
(* Properties of the host diff.                                            *)
(***************************************************************************)
NoDuplicateIds(hosts) == Cardinality(Ids(hosts)) = Len(hosts)
EntryOf(hosts, id) == {hosts[i] : i \in {j \in 1..Len(hosts) : hosts[j].id = id}}

\* a diff result: exactly the hosts of C that `Differs` from their entry in
\* P or have none, and exactly the hosts of P with no entry in C
IsDiffOf(changed, deleted, P, C, Differs(_, _)) ==
  /\ \A i \in 1..Len(C) :
       (C[i] \in SeqToSet(changed)) <=>
         \/ C[i].id \notin Ids(P)
         \/ \E p \in EntryOf(P, C[i].id) : Differs(C[i], p)
  /\ SeqToSet(changed) \subseteq SeqToSet(C)
  /\ NoDuplicateIds(changed)
  /\ \A i \in 1..Len(P) :
       (P[i] \in SeqToSet(deleted)) <=> P[i].id \notin Ids(C)
  /\ SeqToSet(deleted) \subseteq SeqToSet(P)
  /\ NoDuplicateIds(deleted)

FieldsDiffer(c, p) ==
  \/ c.modified_on # p.modified_on
  \/ c.forward_host # p.forward_host
  \/ c.forward_port # p.forward_port
  \/ c.domain_names # p.domain_names

\* C1: every getChangesSinceLastCheck after the first one since
\* start reports as changed exactly the hosts that are new or differ from
\* the baseline in modified_on, forward_host, forward_port or domain_names,
\* and as deleted exactly the baseline hosts that are gone.
C1_Original ==
  (event.diff /\ event.nth >= 1) =>
    IsDiffOf(event.changedHosts, event.deletedHosts, event.previous,
             event.currentHosts, FieldsDiffer)

\* C2: the first getChangesSinceLastCheck after startMonitoring reports the
\* whole fetched list as changed and nothing as deleted, also when an older
\* baseline is stored.
C2_Bootstrap ==
  (event.diff /\ event.nth = 0) =>
    /\ event.changedHosts = event.currentHosts
    /\ event.deletedHosts = <<>>

\* the first diff after a restart, with a stored baseline that holds a host
\* the fetched list lacks and an unchanged host
C2_Witness ==
  /\ event.diff
  /\ event.nth = 0
  /\ Ids(event.previous) \ Ids(event.currentHosts) # {}
  /\ SeqToSet(event.previous) \cap SeqToSet(event.currentHosts) # {}

\* C10: a getProxyHosts call that exhausts its retries has raised
\* consecutiveFailures once, and the monitor halts exactly at the fifth
\* failed poll in a row.
C10_Original ==
  event.exhausted =>
    /\ event.increments = 1
    /\ event.halted <=> event.failedPolls >= maxConsecutiveFailures

(***************************************************************************)
(* Properties of the orchestrator.  They read the requests of the handler  *)
(* invocation that just returned.                                          *)
(***************************************************************************)
Handled == sync.op = "handleNPMChanges"
Requests == 1..Len(sync.log)
IsCreate(e) == e.method = "POST"
IsUpdate(e) == e.method = "PUT"
IsDelete(e) == e.method = "DELETE"
IsListing(e) == e.method = "GET"
RootOf(name) == getRootDomain(sync.zones, name)
ZoneNames == {CloudflareZones[z].name : z \in 1..Len(CloudflareZones)}
Shows(e, type, name) ==
  /\ IsListing(e)
  /\ \E k \in 1..Len(e.result) : e.result[k].type = type /\ e.result[k].name = name

\* C3: within one handleNPMChanges invocation every delete request is
\* issued before any create or update of that invocation.
C3_Original ==
  Handled =>
    \A i, j \in Requests :
      (IsDelete(sync.log[j]) /\ (IsCreate(sync.log[i]) \/ IsUpdate(sync.log[i])))
        => j < i

\* C3: within one handleNPMChanges invocation every delete request is
\* issued before any create of the loop over the changed hosts and of
\* ensureRootDomainRecord; the creates and updates that precede a delete
\* are those initZones issues at entry, for A records named as a zone.
C3_DeletesFirst ==
  Handled =>
    \A i, j \in Requests :
      (IsDelete(sync.log[j]) /\ (IsCreate(sync.log[i]) \/ IsUpdate(sync.log[i])))
        => \/ j < i
           \/ /\ sync.log[i].by = "initZones"
              /\ sync.log[i].data.type = "A"
              /\ sync.log[i].data.name \in ZoneNames

C3_Witness ==
  /\ Handled
  /\ \E i, j, k \in Requests :
       /\ i < j /\ j < k
       /\ IsUpdate(sync.log[i]) /\ sync.log[i].ok
       /\ IsDelete(sync.log[j]) /\ sync.log[j].ok
       /\ IsCreate(sync.log[k]) /\ sync.log[k].ok
       /\ sync.log[k].by = "changedHosts"

\* C4: no create or update of a CNAME is issued for a zone that holds an A
\* record named "*.<zone>", also when the listing of the guard fails.
C4_Original ==
  \A i \in Requests :
    ((IsCreate(sync.log[i]) \/ IsUpdate(sync.log[i]))
       /\ sync.log[i].data.type = "CNAME")
      => ~sync.log[i].wildcard

\* C5: every record the loop over the changed hosts creates for a domain
\* name that differs from its root domain is a proxied CNAME whose content
\* is that root domain; the loop creates no A record for such a name.
C5_SubdomainCNAME ==
  Handled =>
    \A i \in Requests :
      (/\ IsCreate(sync.log[i])
       /\ sync.log[i].by # "initZones"
       /\ sync.log[i].data.name # RootOf(sync.log[i].data.name))
        => /\ sync.log[i].data.type = "CNAME"
           /\ sync.log[i].data.content = RootOf(sync.log[i].data.name)
           /\ sync.log[i].data.proxied

C5_Witness ==
  /\ Handled
  /\ \E i \in Requests :
       /\ IsCreate(sync.log[i]) /\ sync.log[i].ok
       /\ sync.log[i].by = "changedHosts"
       /\ sync.log[i].data.name = WwwExample
       /\ RootOf(WwwExample) = ZoneExample

\* a request that showed the root A record, or created it
RootSeen(e, rootDomain) ==
  \/ Shows(e, "A", rootDomain)
  \/ IsCreate(e) /\ e.ok /\ e.data.type = "A" /\ e.data.name = rootDomain

\* C6: handleNPMChanges issues the CNAME create for a subdomain only after,
\* in the same invocation, a listing showed an A record named as its root
\* domain or a create of that A record succeeded; when the listing of
\* ensureRootDomainRecord shows no such record and auto-create is disabled,
\* no record is created for that domain of the loop.
C6_RootBeforeCNAME ==
  Handled =>
    /\ \A j \in Requests :
         (IsCreate(sync.log[j]) /\ sync.log[j].data.type = "CNAME")
           => \E i \in 1..(j - 1) :
                RootSeen(sync.log[i], RootOf(sync.log[j].data.name))
    /\ \A i, j \in Requests :
         (/\ ~autoCreateRootRecords
          /\ sync.log[i].by = "ensureRootDomainRecord"
          /\ IsListing(sync.log[i])
          /\ \A name \in ZoneNames : ~Shows(sync.log[i], "A", name)
          /\ sync.log[j].item = sync.log[i].item
          /\ sync.log[j].by # "initZones")
           => ~IsCreate(sync.log[j])

C6_Witness ==
  /\ Handled
  /\ \E i, j \in Requests :
       /\ i < j
       /\ sync.log[i].by = "ensureRootDomainRecord"
       /\ IsCreate(sync.log[i]) /\ sync.log[i].ok
       /\ IsCreate(sync.log[j]) /\ sync.log[j].ok
       /\ sync.log[j].data.type = "CNAME"
       /\ sync.log[j].item = sync.log[i].item

\* C7: one handleNPMChanges invocation issues no update, and a record that
\* exists before it has the same content after it.
C7_Original ==
  Handled =>
    /\ \A i \in Requests : ~IsUpdate(sync.log[i])
    /\ \A a \in 1..Len(sync.before), b \in 1..Len(cfRecords) :
         cfRecords[b].id = sync.before[a].id
           => cfRecords[b].content = sync.before[a].content

\* C7: the loops of handleNPMChanges and ensureRootDomainRecord issue no
\* update; the updates of an invocation are those initZones issues at
\* entry, which set an A record named as a zone to the public address, and
\* every other record that exists before and after the invocation is the
\* same.
C7_OnlyInitZonesUpdates ==
  Handled =>
    /\ \A i \in Requests :
         IsUpdate(sync.log[i])
           => /\ sync.log[i].by = "initZones"
              /\ sync.log[i].data.type = "A"
              /\ sync.log[i].data.name \in ZoneNames
              /\ sync.log[i].data.content = sync.ip
    /\ \A a \in 1..Len(sync.before), b \in 1..Len(cfRecords) :
         cfRecords[b].id = sync.before[a].id
           => \/ cfRecords[b] = sync.before[a]
              \/ /\ sync.before[a].type = "A"
                 /\ sync.before[a].name \in ZoneNames
                 /\ cfRecords[b] = [sync.before[a] EXCEPT !.content = sync.ip]

C7_Witness ==
  /\ Handled
  /\ \E i, j \in Requests :
       /\ IsUpdate(sync.log[i]) /\ sync.log[i].ok
       /\ sync.log[j].by = "changedHosts"
       /\ Shows(sync.log[j], "CNAME", SubExample)
       /\ \A k \in Requests : k > j => sync.log[k].item # sync.log[j].item

\* C8: while autoCreateRootRecords is false, no create with type A is
\* issued during a handleNPMChanges invocation.
C8_Original ==
  (Handled /\ ~autoCreateRootRecords) =>
    \A i \in Requests :
      ~(IsCreate(sync.log[i]) /\ sync.log[i].data.type = "A")

\* C9: when checkPublicIPChange moves the baseline to a new address n, it
\* has issued an update to n for every zone whose root A record has other
\* content, and no create, update or delete for a zone whose root A record
\* has content n.
C9_Original ==
  (/\ sync.op = "checkPublicIPChange"
   /\ sync.baseline # NoIP
   /\ currentPublicIP # sync.baseline) =>
    \A a \in 1..Len(sync.before) :
      (sync.before[a].type = "A" /\ sync.before[a].name \in ZoneNames)
        => IF sync.before[a].content # currentPublicIP
           THEN \E i \in Requests :
                  /\ IsUpdate(sync.log[i])
                  /\ sync.log[i].id = sync.before[a].id
                  /\ sync.log[i].data.content = currentPublicIP
           ELSE \A i \in Requests :
                  sync.log[i].zone = sync.before[a].zone
                    => IsListing(sync.log[i])

(***************************************************************************)
(* Properties of startMonitoring and stopMonitoring.                       *)
(***************************************************************************)
\* C15: a call of startMonitoring made while isMonitoring is set does
\* nothing: no activation of the monitor closure, no timer, and the
\* initialized flag, the baseline and the other fields are left as they were.
C15_StartWhileRunningNoOp ==
  [][(isMonitoring /\ event'.startCall # "")
       => /\ event'.startCall = "noop"
          /\ UNCHANGED <<token, consecutiveFailures, isMonitoring,
                         isInitialized, lastKnownHosts, monitorInterval,
                         timers, runs, checksSinceStart>>]_vars

\* startMonitoring has returned at its guard while a baseline was in place
\* and the interval was armed
C15_Witness ==
  /\ event.startCall = "noop"
  /\ isMonitoring
  /\ isInitialized
  /\ lastKnownHosts # <<>>
  /\ timers > 0

\* C16: from any state of the monitor, stopMonitoring called twice leaves
\* what one call leaves, and that is a monitor with no interval timer armed
\* and with isMonitoring and isInitialized cleared.
C16_Original ==
  LET once == stopMonitoring(Monitor)
  IN /\ stopMonitoring(once) = once
     /\ once.timers = 0
     /\ ~once.monitorInterval
     /\ ~once.isMonitoring
     /\ ~once.isInitialized

(***************************************************************************)
(* Properties of getProxyHosts.                                            *)
(***************************************************************************)
\* C13: one getProxyHosts call re-authenticates and starts over at most
\* once on HTTP 401.
C13_Original == \A r \in 1..MaxRuns : runs[r].reauths <= 1

(***************************************************************************)
(* Properties of makeRequest.                                              *)
(***************************************************************************)
Sent == 1..Len(call.requests)

\* the error an attempt raises when its outcome fails the call
ErrorOf(o, attempt) ==
  IF o.kind = "error" \/ o.body = "invalid" THEN OtherError(attempt)
  ELSE CloudflareError(o.status, attempt)

\* request i was followed by a wait or by another request
Retried(i) == i < Len(call.requests) \/ call.pc \in {"wait", "fetch"}

\* C17: one makeRequest call issues at most 3 requests, and a call whose
\* third attempt fails throws the error of that attempt.
C17_AtMostThreeRequests ==
  /\ Len(call.requests) <= cfMaxRetries
  /\ Len(call.requests) = cfMaxRetries
       => /\ call.pc \in {"returned", "threw"}
          /\ call.pc = "threw"
               => call.error = ErrorOf(call.requests[cfMaxRetries],
                                       cfMaxRetries - 1)

\* a call that failed on its third attempt after a 429 and a transport error
C17_Witness ==
  /\ call.pc = "threw"
  /\ Len(call.requests) = cfMaxRetries
  /\ call.requests[1].status = 429
  /\ call.requests[2] = TransportError
  /\ call.requests[3].status = 503

\* C18: a response with status 530 or 403 fails the call on the attempt
\* that received it: it is the last request of the call, no wait follows it,
\* and the call throws the error of that response.
C18_NoRetryOn530Or403 ==
  \A i \in Sent :
    call.requests[i].status \in {530, 403}
      => /\ i = Len(call.requests)
         /\ Len(call.waits) = i - 1
         /\ call.pc = "threw"
         /\ call.error = CloudflareError(call.requests[i].status, i - 1)

\* a 530 or 403 on the second attempt, with one attempt of the budget left
C18_Witness ==
  /\ Len(call.requests) = 2
  /\ call.requests[2].status \in {530, 403}
  /\ call.pc = "threw"

\* the delay a Retry-After value asks for, in seconds: delay-seconds, or an
\* HTTP-date, here one 30 s after the response
RetryAfterSeconds(h) ==
  CASE h = "0" -> 0
    [] h = "2" -> 2
    [] h = HttpDate -> 30

RequestedWait(h) ==
  IF h \in {NoHeader, ""} THEN retryDelay ELSE RetryAfterSeconds(h) * 1000

\* C19: after a 429 on the first or second attempt the call waits at least
\* the seconds of the Retry-After header (the base delay without one) and
\* then issues the next of its 3 attempts; a 429 on the third attempt fails
\* the call.
C19_Original ==
  \A i \in Sent :
    call.requests[i].status = 429
      => IF i < cfMaxRetries
         THEN /\ Retried(i)
              /\ Len(call.waits) >= i
              /\ call.waits[i] >= RequestedWait(call.requests[i].retryAfter)
         ELSE /\ call.pc = "threw"
              /\ call.error = CloudflareError(429, i - 1)

\* C20: a non-2xx response is followed by a wait and another request only
\* if its status is 429 or at least 500 and not 530; a response with any
\* other 4xx status is the last request of the call, which throws.
C20_OnlyRateLimitAndServerErrorsRetried ==
  \A i \in Sent :
    LET o == call.requests[i]
    IN (o.kind = "response" /\ ~ResponseOk(o.status))
         => /\ Retried(i)
                 => (o.status = 429 \/ (o.status >= 500 /\ o.status # 530))
            /\ (o.status >= 400 /\ o.status <= 499 /\ o.status # 429)
                 => (i = Len(call.requests) /\ call.pc = "threw"
                     /\ Len(call.waits) = i - 1)

\* a 503 that was retried, then a 404 that failed the call
C20_Witness ==
  /\ Len(call.requests) = 2
  /\ call.requests[1].status = 503
  /\ call.requests[2].status = 404
  /\ call.pc = "threw"

(***************************************************************************)
(* Properties of the poll cycles.                                          *)
(***************************************************************************)
HasRecordNamed(name) == \E i \in 1..Len(cfRecords) : cfRecords[i].name = name

\* Cloudflare would take the record of sub.example.com: no wildcard A
\* record covers it and the record store has room
Creatable ==
  /\ ~HasWildcardA(cfRecords, "zone-com")
  /\ Len(cfRecords) < MaxRecords

\* C11: with the host of sub.example.com unchanged in NPM and the interval
\* armed, once Cloudflare's calls succeed a later poll cycle repeats what an
\* earlier cycle failed to do, so that the record of sub.example.com
\* eventually exists.
C11_Original ==
  (healthy /\ timers > 0 /\ Creatable) ~> HasRecordNamed(SubExample)

(***************************************************************************)
(* Properties of the timers.                                               *)
(***************************************************************************)
\* C14: a tick of the host-poll interval starts an activation of the
\* monitor closure only when no activation is in flight, so that at most one
\* is active at any time.
C14_Original ==
  [][\A r \in 1..MaxRuns :
       (runs[r].pc = "idle" /\ runs'[r].pc # "idle" /\ ~runs'[r].initial)
         => \A q \in 1..MaxRuns : runs[q].pc = "idle"]_vars

(***************************************************************************)
(* Properties of the process.                                              *)
(***************************************************************************)
\* C12: once the monitor has stopped itself at the consecutive-failure
\* threshold, the process goes on to exit, which ends the address checks of
\* main's interval.
C12_Original == event.halted ~> (process = "exited")

\* C21: a 5xx response other than 530, or a transport error, on attempt k
\* (k = 0, 1) is followed by a wait of min(1000 * 2^k, 10000) ms and another
\* request; a transport error on the last attempt fails the call.
C21_ExponentialBackoff ==
  \A i \in Sent :
    LET o == call.requests[i]
    IN (o.kind = "error" \/ (o.status >= 500 /\ o.status # 530))
         => IF i < cfMaxRetries
            THEN /\ Retried(i)
                 /\ Len(call.waits) >= i
                 /\ call.waits[i] = Min(1000 * (2 ^ (i - 1)), 10000)
            ELSE /\ call.pc = "threw"
                 /\ call.error = ErrorOf(o, i - 1)

\* a 500 and a transport error, each followed by its wait, then a third
\* transport error that fails the call
C21_Witness ==
  /\ Len(call.requests) = cfMaxRetries
  /\ call.requests[1].status = 500
  /\ call.requests[2] = TransportError
  /\ call.requests[3] = TransportError
  /\ call.waits = <<1000, 2000>>
  /\ call.pc = "threw"

\* C22: a call returns only on a 2xx response whose body has success true;
\* a 2xx body with success false is the last response of its call, which
\* throws an error whose message carries the first message of the body's
\* errors.
C22_ReturnsOnlySuccess ==
  /\ call.pc = "returned"
       => LET o == call.requests[Len(call.requests)]
          IN o.kind = "response" /\ ResponseOk(o.status) /\ o.body = "success"
  /\ \A i \in Sent :
       LET o == call.requests[i]
       IN (o.kind = "response" /\ ResponseOk(o.status) /\ o.body = "failure")
            => /\ i = Len(call.requests)
               /\ call.pc = "threw"
               /\ call.error = CloudflareError(o.status, i - 1)
               /\ o.errors # <<>> => call.message[3] = o.errors[1]

\* a body with success false and two errors failed the call on its second
\* attempt
C22_Witness ==
  /\ Len(call.requests) = 2
  /\ call.requests[2].body = "failure"
  /\ Len(call.requests[2].errors) = 2
  /\ call.pc = "threw"
  /\ call.message = <<"context", " failed: ", "first">>

(***************************************************************************)
(* Properties of getPublicIP.                                              *)
(***************************************************************************)
\* the services in the order and number of attempts of a call whose
\* attempts all fail: each service MAX_RETRIES times, in list order
FullOrder ==
  [k \in 1..(Len(services) * MAX_RETRIES) |-> ((k - 1) \div MAX_RETRIES) + 1]

\* C23: a call that finds a cached address whose timestamp is less than 5
\* minutes old returns that address, makes no attempt at any service and
\* leaves the cache as it was.
C23_FreshCacheServed ==
  (/\ lookup.pc # "idle"
   /\ lookup.entry.cachedIP # NoIP
   /\ lookup.now - lookup.entry.lastCheck < 5 * 60 * 1000)
    => /\ lookup.pc = "returned"
       /\ lookup.ret = lookup.entry.cachedIP
       /\ lookup.tried = <<>>
       /\ cachedIP = lookup.entry.cachedIP
       /\ lastCheck = lookup.entry.lastCheck

\* a call made half a cache period after the address was cached
C23_Witness ==
  /\ lookup.pc = "returned"
  /\ lookup.how = "cache"
  /\ lookup.ret # NoIP
  /\ lookup.now > lookup.entry.lastCheck

\* C24: on a cache miss the attempts go through the services in list
\* order, three per service; the call returns the text of the first attempt
\* that matches the dotted-quad pattern, an attempt with any other outcome
\* being followed by the next attempt, and on return the cache holds the
\* address returned.
C24_ProvidersInOrder ==
  /\ Len(lookup.tried) <= Len(FullOrder)
  /\ \A k \in 1..Len(lookup.tried) : lookup.tried[k] = FullOrder[k]
  /\ lookup.pc = "returned" => cachedIP = lookup.ret
  /\ (lookup.pc = "returned" /\ lookup.how = "service")
       => /\ isIPv4Syntax(lookup.ret[1])
          /\ lastCheck = lookup.now
  /\ (lookup.pc \in {"returned", "threw"} /\ lookup.how \notin {"service", "cache"})
       => lookup.tried = FullOrder

\* the second service answered with an address on its second attempt
C24_Witness ==
  /\ lookup.pc = "returned"
  /\ lookup.how = "service"
  /\ lookup.tried = <<1, 1, 1, 2, 2>>
  /\ lookup.ret = <<"5.6.7.8">>
  /\ lookup.entry.cachedIP = <<"1.2.3.4">>

\* C25: a call in which every attempt at every service failed returns the
\* address the cache held, however old, and throws only when no call has
\* ever got an address from a service; it leaves the cache as it was.
C25_StaleFallback ==
  (lookup.pc \in {"returned", "threw"} /\ lookup.tried = FullOrder
     /\ lookup.how # "service")
    => /\ cachedIP = lookup.entry.cachedIP
       /\ lastCheck = lookup.entry.lastCheck
       /\ IF lookup.resolved
          THEN lookup.pc = "returned" /\ lookup.ret = lookup.entry.cachedIP
                 /\ lookup.ret # NoIP
          ELSE lookup.pc = "threw"

\* every attempt failed and the call returned an address cached a full
\* cache period earlier
C25_Witness ==
  /\ lookup.pc = "returned"
  /\ lookup.how = "fallback"
  /\ lookup.tried = FullOrder
  /\ lookup.now - lookup.entry.lastCheck >= CACHE_DURATION
  /\ lookup.ret = cachedIP


(***************************************************************************)
(* getRootDomain                                                           *)
(***************************************************************************)
\* the zone names of the map that the domain ends with
SuffixZones(zoneMap, domain) ==
  {zoneMap[i].name : i \in {j \in DOMAIN zoneMap : EndsWith(domain, zoneMap[j].name)}}

\* the same zones inserted in another order
Reorderings(zoneMap) ==
  {zm \in ZoneMaps : Len(zm) = Len(zoneMap) /\ SeqToSet(zm) = SeqToSet(zoneMap)}

\* C26: getRootDomain(h) returns the longest zone name of the zone map that
\* is a suffix of h, and the empty string when no zone name is a suffix of
\* h; the result is the same under every iteration order of the map, and
\* with the zones b.com and a.b.com the result for sub.a.b.com is a.b.com.
C26_LongestSuffixZone ==
  probe.called =>
    LET candidates == SuffixZones(probe.zones, probe.domain)
    IN /\ candidates = {} => probe.result = <<>>
       /\ candidates # {} =>
            /\ probe.result \in candidates
            /\ \A z \in candidates : Len(z) <= Len(probe.result)
       /\ \A zm \in Reorderings(probe.zones) :
            getRootDomain(zm, probe.domain) = probe.result
       /\ ( /\ {probe.zones[i].name : i \in DOMAIN probe.zones} = {NameBCom, NameABCom}
            /\ probe.domain = <<"s", "u", "b", ".">> \o NameABCom )
          => probe.result = NameABCom

\* the shorter zone iterates last and sub.a.b.com still resolves to a.b.com
C26_Witness ==
  /\ probe.called
  /\ Len(probe.zones) = 2
  /\ probe.zones[1].name = NameABCom
  /\ probe.zones[2].name = NameBCom
  /\ probe.domain = <<"s", "u", "b", ".">> \o NameABCom
  /\ probe.result = NameABCom

\* C27: getRootDomain is idempotent for every hostname and every zone map:
\* getRootDomain(getRootDomain(x)) = getRootDomain(x), the empty result
\* included.
C27_Idempotent == probe.called => probe.again = probe.result

\* a hostname with two zones above it, and one with none
C27_Witness ==
  /\ probe.called
  /\ \/ /\ Cardinality(SuffixZones(probe.zones, probe.domain)) = 2
        /\ probe.result # probe.domain
        /\ probe.again = probe.result
     \/ /\ probe.zones # <<>>
        /\ probe.result = <<>>
        /\ probe.again = <<>>


(***************************************************************************)
(* initZones                                                               *)
(***************************************************************************)
\* the requests initZones issued in the invocation that has just returned
ZoneRequests == {i \in Requests : sync.log[i].by = "initZones"}

\* the root A records Cloudflare held for a zone name when the invocation
\* began
RootARecords(name) ==
  {a \in 1..Len(sync.before) :
     sync.before[a].type = "A" /\ sync.before[a].name = name}

\* C28: for each zone, initZones issues a create of the root A record only
\* if the zone has no root A record, an update only if the existing root A
\* record's content differs from the current public IP, and no mutation
\* when the content matches.
C28_Original ==
  \A i \in ZoneRequests :
    LET e == sync.log[i]
    IN /\ (IsCreate(e) /\ e.data.type = "A" /\ e.data.name \in ZoneNames)
            => RootARecords(e.data.name) = {}
       /\ IsUpdate(e) =>
            \E a \in RootARecords(e.data.name) :
              /\ sync.before[a].id = e.id
              /\ sync.before[a].content # e.data.content
       /\ (IsCreate(e) \/ IsUpdate(e)) =>
            \/ RootARecords(e.data.name) = {}
            \/ \E a \in RootARecords(e.data.name) :
                 sync.before[a].content # e.data.content


\* the answer of GET /zones in the initZones call that has just returned
ListedZones == IF sync.log[1].ok THEN sync.log[1].result ELSE <<>>

\* C29: after initZones returns, the zone map holds exactly the name-to-id
\* pairs that the zone listing returned in that call, with no entry left
\* from an earlier call; when the listing failed the map is empty.
C29_ZoneMapReplaced ==
  sync.op = "initZones" =>
    /\ sync.log[1].method = "ZONES"
    /\ zones = ListedZones
    /\ ~sync.log[1].ok => zones = <<>>
    /\ \A i \in DOMAIN zones :
         \E k \in DOMAIN ListedZones : ListedZones[k] = zones[i]

\* the call found entries of an earlier call; either the listing failed, or
\* it answered without a zone the map held
C29_Witness ==
  /\ sync.op = "initZones"
  /\ probe.zones # <<>>
  /\ \/ ~sync.log[1].ok /\ zones = <<>>
     \/ /\ sync.log[1].ok
        /\ \E i \in DOMAIN probe.zones :
             \A k \in DOMAIN zones : zones[k].name # probe.zones[i].name


(***************************************************************************)
(* The public operations of the client                                     *)
(***************************************************************************)
\* an operation of the client has ended
Ended(op) == probe.pc = "done" /\ probe.op = op

\* C30: no public operation of the Cloudflare client propagates an
\* exception: whatever makeRequest throws (530 and 403 included), getZones
\* and getDNSRecords return the empty list, createDNSRecord and
\* updateDNSRecord return null, deleteDNSRecord returns false, and
\* initZones completes with the zone map holding the listed zones even
\* when the address lookup or a request of the root-record reconciliation
\* fails.
C30_NoExceptionPropagates ==
  probe.pc = "done" =>
    /\ ~probe.threw
    /\ (probe.op \in {"getZones", "getDNSRecords"} /\ probe.op \in probe.failed)
         => probe.value = ArrayOf(<<>>)
    /\ (probe.op \in {"createDNSRecord", "updateDNSRecord"}
          /\ probe.op \in probe.failed)
         => probe.value = NullValue
    /\ (probe.op = "deleteDNSRecord" /\ probe.op \in probe.failed)
         => probe.value = BooleanOf(FALSE)
    /\ (probe.op = "initZones" /\ "getZones" \notin probe.failed)
         => zones = CloudflareZones

\* initZones has returned with both zones mapped although a listing and a
\* create of the reconciliation failed
C30_Witness ==
  /\ Ended("initZones")
  /\ {"getDNSRecords", "createDNSRecord"} \subseteq probe.failed
  /\ zones = CloudflareZones
  /\ ~probe.threw


(***************************************************************************)
(* checkPublicIPChange                                                     *)
(***************************************************************************)
\* the requests checkPublicIPChange issued in the invocation that has just
\* returned
CheckRequests == {i \in Requests : sync.log[i].by = "checkPublicIPChange"}

\* C31: the first checkPublicIPChange invocation (baseline unset) only
\* stores the resolved address as baseline and issues no DNS mutation; any
\* later invocation whose resolved address equals the baseline issues no
\* Cloudflare request at all.
C31_BaselineOnlyFirst ==
  /\ (sync.op \in {"main", "checkPublicIPChange"} /\ sync.baseline = NoIP)
       => /\ CheckRequests = {}
          /\ currentPublicIP = sync.ip
  /\ (sync.op = "checkPublicIPChange" /\ sync.baseline # NoIP
        /\ sync.ip = sync.baseline)
       => /\ sync.log = <<>>
          /\ currentPublicIP = sync.baseline

\* a later check resolves the address of the baseline
C31_Witness ==
  /\ sync.op = "checkPublicIPChange"
  /\ sync.baseline # NoIP
  /\ sync.ip = sync.baseline
  /\ sync.log = <<>>


\* an invocation of checkPublicIPChange that found the address changed
DetectedChange(s) ==
  s.op = "checkPublicIPChange" /\ s.baseline # NoIP /\ s.ip # s.baseline

\* the root A records that do not hold the baseline's address
StaleRoots ==
  {a \in 1..Len(cfRecords) :
     /\ cfRecords[a].type = "A"
     /\ cfRecords[a].name \in ZoneNames
     /\ cfRecords[a].content # currentPublicIP}

\* C32: after checkPublicIPChange has detected a changed address and
\* finished its zone loop, the stored baseline equals the new address
\* whether the per-zone updates succeeded, failed, or no zone could be
\* listed; a later invocation that resolves the same address then issues
\* no mutation, also for the zones that failed.
C32_BaselineMovesRegardless ==
  [][(invocations' # invocations /\ sync'.op = "checkPublicIPChange") =>
       /\ DetectedChange(sync') => currentPublicIP' = sync'.ip
       /\ (DetectedChange(sync) /\ sync'.ip = currentPublicIP)
            => \A i \in 1..Len(sync'.log) :
                 ~(IsCreate(sync'.log[i]) \/ IsUpdate(sync'.log[i])
                     \/ IsDelete(sync'.log[i]))]_vars

\* the second check resolves the baseline's address and issues nothing
\* while a root A record still holds another address
C32_Witness ==
  /\ invocations = 2
  /\ sync.op = "checkPublicIPChange"
  /\ sync.ip = sync.baseline
  /\ sync.log = <<>>
  /\ lastCheck > 0
  /\ StaleRoots # {}


(***************************************************************************)
(* Properties of the baseline and of the failure counter.                  *)
(***************************************************************************)
\* C33: after every getChangesSinceLastCheck that returns, lastKnownHosts
\* equals the currentHosts list that call returned, whether or not any
\* host was changed or deleted.
C33_BaselineReplaced == event.diff => lastKnownHosts = event.currentHosts

\* a diff after the first one that finds nothing changed or deleted, and
\* one that does, each against a baseline of another list
C33_Witness ==
  /\ event.diff
  /\ event.wasInitialized
  /\ event.previous # event.currentHosts
  /\ event.changedHosts = <<>>
  /\ event.deletedHosts = <<>>
  /\ lastKnownHosts = event.currentHosts


\* C34: a successful login and a successful host-list fetch each reset the
\* consecutive-failure counter to 0, and a successful login stores the
\* bearer token, so that the failures before a successful poll do not count
\* towards the halt threshold after it.
C34_SuccessResetsCounter ==
  [][/\ (token = Null /\ token' # Null)
          => (token' = BearerToken /\ consecutiveFailures' = 0)
     /\ (event'.diff /\ ~event'.exhausted)
          => (consecutiveFailures' = 0 /\ failedPolls' = 0)]_vars

\* a login succeeds after a poll that failed, and the counter is back at 0
C34_Witness ==
  /\ token = BearerToken
  /\ consecutiveFailures = 0
  /\ failedPolls > 0


\* C35: a host is reported in deletedHosts only if a successful NPM
\* response omitted it: a poll whose host fetch exhausts its retries below
\* the halt threshold reports no deletions and leaves the baseline
\* unchanged.
C35_Original ==
  (event.diff /\ event.exhausted) =>
    /\ event.deletedHosts = <<>>
    /\ lastKnownHosts = event.previous


\* C36: in every reachable state of the monitor, isMonitoring = FALSE
\* implies that no interval timer is armed, and at most one interval timer
\* is armed at any time.
C36_Original ==
  /\ ~isMonitoring => timers = 0
  /\ timers <= 1


(***************************************************************************)
(* Creates                                                                 *)
(***************************************************************************)
\* the records Cloudflare held when the invocation began and still holds
\* when it receives request i
HeldAt(i) ==
  {k \in 1..Len(sync.before) :
     ~\E j \in 1..(i - 1) :
        /\ IsDelete(sync.log[j])
        /\ sync.log[j].ok
        /\ sync.log[j].id = sync.before[k].id}

\* C37: the system never issues a create for a record name and type that
\* already exist in the zone, also when a record listing fails and returns
\* the empty list.
C37_Original ==
  \A i \in Requests :
    IsCreate(sync.log[i]) =>
      ~\E k \in HeldAt(i) :
         /\ sync.before[k].zone = sync.log[i].zone
         /\ sync.before[k].name = sync.log[i].data.name
         /\ sync.before[k].type = sync.log[i].data.type


(***************************************************************************)
(* Records and the hosts of NPM                                            *)
(***************************************************************************)
\* every request of the invocation that has just returned succeeded
AllSucceeded == \A i \in Requests : sync.log[i].ok

\* the zone of the name held a root A record and no wildcard A record when
\* the invocation began
RootOnly(name) ==
  /\ RootARecords(RootOf(name)) # {}
  /\ \A k \in 1..Len(sync.before) :
       ~(sync.before[k].type = "A"
         /\ sync.before[k].name = Wildcard(RootOf(name)))

\* the subdomain names of the hosts the monitor reported at this poll or
\* held as its baseline before it
ReportedNames ==
  {n \in SeqToSet(DomainNames(event.previous))
           \cup SeqToSet(DomainNames(event.currentHosts)) :
     RootOf(n) # <<>> /\ n # RootOf(n)}

HasRecord(name) == \E k \in 1..Len(cfRecords) : cfRecords[k].name = name

\* C38: after a handleNPMChanges invocation in which every Cloudflare call
\* succeeds, in a zone with a root A record and no wildcard A record, a
\* subdomain name the monitor has reported has a record if and only if some
\* host of the current NPM list names it.
C38_Original ==
  (Handled /\ event.diff /\ AllSucceeded) =>
    \A n \in ReportedNames :
      RootOnly(n) =>
        (HasRecord(n) <=> n \in SeqToSet(DomainNames(event.currentHosts)))


\* C39: handleNPMChanges deletes only records of type A or CNAME: for a
\* deleted host's domain name it never deletes a record of another type
\* that carries the same name.
C39_Original ==
  Handled =>
    \A i \in Requests :
      (IsDelete(sync.log[i]) /\ sync.log[i].by = "deletedHosts") =>
        \A k \in 1..Len(sync.before) :
          sync.before[k].id = sync.log[i].id
            => sync.before[k].type \in {"A", "CNAME"}


\* C40: getRootDomain maps a hostname to a zone only on a DNS label
\* boundary: a non-empty result z satisfies h = z or h ends with "."
\* followed by z.
C40_Original ==
  (probe.called /\ probe.result # <<>>) =>
    \/ probe.domain = probe.result
    \/ EndsWith(probe.domain, <<".">> \o probe.result)

====
